---- MODULE Spec2Model ----
(***************************************************************************)
(* PostCSSense: extraction of global CSS class names from a stylesheet and *)
(* their use by the completion provider, the hover provider and the class  *)
(* explorer panel.                                                         *)
(*                                                                         *)
(* Text is modelled as a sequence of tokens.  A token is either one        *)
(* punctuation character, one white-space character, or one run of word    *)
(* characters ([\w\-]+); the literal words the code searches for           *)
(* ("global", "class", "composes:" ...) are tokens of their own.  A        *)
(* regular expression of the code is an operator that scans the token      *)
(* sequence the way the regular expression scans the characters, and a     *)
(* character offset is a number of tokens.                                 *)
(***************************************************************************)
EXTENDS Integers, Sequences, FiniteSets, TLC

VARIABLES
    selector,        \* the selector handed to the per-selector extraction
    selVariant,      \* which extraction ran last on it ("none" before any)
    selClasses,      \* the class names that extraction produced, in order
    css,             \* the parsed stylesheet: its style rules in document order
    indexVariant,    \* which index builder ran last on it ("none" before any)
    index,           \* the class index it built: <<[className, properties]>>
    languageId,      \* document.languageId of the completion request
    line,            \* document.lineAt(position.line).text
    position,        \* position.character
    completion,      \* the completion request: status, context found, items
    clock,           \* Date.now(), in minutes
    lastUpdated,     \* lastUpdated of the hover provider's module
    env,             \* settings, workspace and file system the providers read
    tasks,           \* the calls of updateClassDefinitions, in call order
    hovers,          \* the hover requests, in arrival order
    fsEvents,        \* the file-system events on *.css files so far
    messages,        \* what was shown or logged, in order
    importId,        \* the specifier of an @import handed to a resolver
    basedir,         \* the directory of the file that holds the @import
    resolved,        \* the paths the resolvers returned for it, in order
    settings,        \* the workspace settings: configuration key -> value
    panels,          \* the class explorer panels created so far, in order
    currentPanel     \* CssClassesPanel.currentPanel: a position in panels, 0
                     \* for undefined

selVars == <<selector, selVariant, selClasses>>

cssVars == <<css, indexVariant, index>>

docVars == <<languageId, line, position>>

lifeVars == <<clock, lastUpdated, env, tasks, hovers, fsEvents>>

importVars == <<importId, basedir, resolved>>

panelVars == <<settings, panels, currentPanel>>

vars == <<selector, selVariant, selClasses, css, indexVariant, index,
          languageId, line, position, completion,
          clock, lastUpdated, env, tasks, hovers, fsEvents, messages,
          importId, basedir, resolved, settings, panels, currentPanel>>

\* Date.now() when the extension is activated, in minutes: far more than
\* the time-to-live away from the initial lastUpdated = 0
StartTime == 6

\* everything configured, present and readable
OkEnv ==
    [cssPath |-> TRUE, workspaceFolder |-> TRUE,
     readable |-> TRUE, importsResolve |-> TRUE]

\* the providers of the extension not activated, nothing shown
LifeIdle ==
    /\ clock = StartTime
    /\ lastUpdated = 0
    /\ env = OkEnv
    /\ tasks = <<>>
    /\ hovers = <<>>
    /\ fsEvents = <<>>
    /\ messages = <<>>

\* the workspace settings with postcssense.cssPath set to path ("" for not
\* set) and nothing under the extension's former name
SettingsWith(path) ==
    [key \in {"postcssense.cssPath", "shringarcss-intellisense.cssPath"} |->
        IF key = "postcssense.cssPath" THEN path ELSE ""]

\* no import handed to a resolver
ImportIdle ==
    /\ importId = <<>>
    /\ basedir = <<>>
    /\ resolved = <<>>

\* no command run, no panel created
PanelIdle ==
    /\ settings = SettingsWith(IF env.cssPath THEN "index.css" ELSE "")
    /\ panels = <<>>
    /\ currentPanel = 0

\* a completion request that has not been served
NoCompletion ==
    [status |-> "idle", applicable |-> FALSE, existing |-> <<>>, items |-> <<>>]

----------------------------------------------------------------------------
(* Character classes of the regular expressions, on tokens. *)

\* \w and '-' : runs of word characters
WordTokens == {"global", "a", "b", "A"}

\* \s
IsSpace(t) == t \in {" ", "\t"}

\* [\w\-]
IsWord(t) == t \in WordTokens

\* [^:\s.]
IsPrefixNameChar(t) == t \notin {":", " ", "."}

\* length of the longest run of tokens satisfying a class, starting at s[i]
RECURSIVE WordRun(_, _)
WordRun(s, i) ==
    IF i > Len(s) \/ i < 1 THEN 0
    ELSE IF IsWord(s[i]) THEN 1 + WordRun(s, i + 1) ELSE 0

RECURSIVE NonSpaceRun(_, _)
NonSpaceRun(s, i) ==
    IF i > Len(s) \/ i < 1 THEN 0
    ELSE IF ~IsSpace(s[i]) THEN 1 + NonSpaceRun(s, i + 1) ELSE 0

RECURSIVE SpaceRun(_, _)
SpaceRun(s, i) ==
    IF i > Len(s) \/ i < 1 THEN 0
    ELSE IF IsSpace(s[i]) THEN 1 + SpaceRun(s, i + 1) ELSE 0

RECURSIVE PrefixNameRun(_, _)
PrefixNameRun(s, i) ==
    IF i > Len(s) \/ i < 1 THEN 0
    ELSE IF IsPrefixNameChar(s[i]) THEN 1 + PrefixNameRun(s, i + 1) ELSE 0

RECURSIVE NonCloseRun(_, _)
NonCloseRun(s, i) ==
    IF i > Len(s) \/ i < 1 THEN 0
    ELSE IF s[i] # ")" THEN 1 + NonCloseRun(s, i + 1) ELSE 0

\* s[i], or a token that matches nothing when i is past the end
At(s, i) == IF i >= 1 /\ i <= Len(s) THEN s[i] ELSE "<eos>"

\* String.prototype.startsWith('.') / substring(1)
StartsWithDot(name) == Len(name) > 0 /\ name[1] = "."

StripDot(name) == IF StartsWithDot(name) THEN Tail(name) ELSE name

----------------------------------------------------------------------------
(* The regular expressions of the three class extractors. *)

\* /\.([\w\-]+)/g : every dot followed by a word run, left to right
RECURSIVE SimpleMatchesFrom(_, _)
SimpleMatchesFrom(s, i) ==
    IF i > Len(s) THEN <<>>
    ELSE IF s[i] = "." /\ WordRun(s, i + 1) > 0
         THEN <<SubSeq(s, i + 1, i + WordRun(s, i + 1))>>
                  \o SimpleMatchesFrom(s, i + 1 + WordRun(s, i + 1))
         ELSE SimpleMatchesFrom(s, i + 1)

simpleMatches(s) == SimpleMatchesFrom(s, 1)

\* /global\(([\w\-]+)\)/g, each match cut by substring(7, length - 1)
RECURSIVE GlobalFuncMatchesFrom(_, _)
GlobalFuncMatchesFrom(s, i) ==
    IF i > Len(s) THEN <<>>
    ELSE IF /\ s[i] = "global"
            /\ At(s, i + 1) = "("
            /\ WordRun(s, i + 2) > 0
            /\ At(s, i + 2 + WordRun(s, i + 2)) = ")"
         THEN <<SubSeq(s, i + 2, i + 1 + WordRun(s, i + 2))>>
                  \o GlobalFuncMatchesFrom(s, i + 3 + WordRun(s, i + 2))
         ELSE GlobalFuncMatchesFrom(s, i + 1)

globalFuncMatches(s) == GlobalFuncMatchesFrom(s, 1)

\* /\.?global(?:\((.+?)\)|\.(\S+))/ tried at the occurrence of "global" at k.
\* The result is <<>> when the continuation does not match, else <<capture>>:
\*   \((.+?)\)  the shortest non-empty text up to a ")" ;
\*   \.(\S+)    the longest run of non-space after the dot.
\* The optional leading dot changes the start of the match, not the capture.
GlobalAt(s, k) ==
    IF At(s, k) # "global" THEN <<>>
    ELSE IF At(s, k + 1) = "("
         THEN LET closes == {j \in (k + 3)..Len(s) : s[j] = ")"}
              IN  IF closes = {} THEN <<>>
                  ELSE LET j == CHOOSE c \in closes : \A d \in closes : c <= d
                       IN  <<SubSeq(s, k + 2, j - 1)>>
    ELSE IF At(s, k + 1) = "." /\ NonSpaceRun(s, k + 2) > 0
         THEN <<SubSeq(s, k + 2, k + 1 + NonSpaceRun(s, k + 2))>>
    ELSE <<>>

\* String.prototype.match without the g flag: the leftmost match
RECURSIVE GlobalMatchesFrom(_, _)
GlobalMatchesFrom(s, k) ==
    IF k > Len(s) THEN <<>>
    ELSE IF GlobalAt(s, k) # <<>> THEN GlobalAt(s, k)
    ELSE GlobalMatchesFrom(s, k + 1)

globalMatches(s) == GlobalMatchesFrom(s, 1)

\* /:global\s*(?:\(([^)]+)\)|\.([^:\s.]+)|\(\.([^:\s.]+)\))/ tried at the
\* colon at k; the result is <<>> or <<group1 || group2 || group3>>.
GlobalPrefixAt(s, k) ==
    IF At(s, k) # ":" \/ At(s, k + 1) # "global" THEN <<>>
    ELSE LET q == k + 2 + SpaceRun(s, k + 2)
             n1 == NonCloseRun(s, q + 1)
             n2 == PrefixNameRun(s, q + 1)
             \* third alternative: the longest run that a ")" follows
             ends3 == {n \in 1..PrefixNameRun(s, q + 2) : At(s, q + 2 + n) = ")"}
         IN  IF At(s, q) = "(" /\ n1 > 0 /\ At(s, q + 1 + n1) = ")"
             THEN <<SubSeq(s, q + 1, q + n1)>>
             ELSE IF At(s, q) = "." /\ n2 > 0
             THEN <<SubSeq(s, q + 1, q + n2)>>
             ELSE IF At(s, q) = "(" /\ At(s, q + 1) = "." /\ ends3 # {}
             THEN LET n == CHOOSE m \in ends3 : \A o \in ends3 : o <= m
                  IN  <<SubSeq(s, q + 2, q + 1 + n)>>
             ELSE <<>>

RECURSIVE GlobalPrefixMatchesFrom(_, _)
GlobalPrefixMatchesFrom(s, k) ==
    IF k > Len(s) THEN <<>>
    ELSE IF GlobalPrefixAt(s, k) # <<>> THEN GlobalPrefixAt(s, k)
    ELSE GlobalPrefixMatchesFrom(s, k + 1)

globalPrefixMatches(s) == GlobalPrefixMatchesFrom(s, 1)

\* /^\.([A-Za-z0-9_-]+)/ : only a class the selector starts with
classMatch(s) ==
    IF At(s, 1) = "." /\ WordRun(s, 2) > 0
    THEN <<SubSeq(s, 2, 1 + WordRun(s, 2))>>
    ELSE <<>>

----------------------------------------------------------------------------
(* What each extractor makes of one selector: a sequence of class names. *)

\* hover provider: all three syntaxes are collected, none excludes another
extractClasses(sel) ==
    simpleMatches(sel)
        \o globalFuncMatches(sel)
        \o (IF globalPrefixMatches(sel) # <<>>
            THEN <<StripDot(globalPrefixMatches(sel)[1])>>
            ELSE <<>>)

\* completion provider: the global() form wins and returns, else plain classes
parseCssClasses_selector(sel) ==
    IF globalMatches(sel) # <<>>
    THEN <<StripDot(globalMatches(sel)[1])>>
    ELSE simpleMatches(sel)

\* panel: global() (not stripped), else :global (stripped), else leading class
refresh_className(sel) ==
    IF globalMatches(sel) # <<>> THEN globalMatches(sel)
    ELSE IF globalPrefixMatches(sel) # <<>>
         THEN <<StripDot(globalPrefixMatches(sel)[1])>>
    ELSE classMatch(sel)

----------------------------------------------------------------------------
(* Specification SpecSel: one selector, the extractors applied to it. *)

MaxSelParts == 3

SelParts ==
    { <<".", "a">>, <<".", "b">>, <<"global">>, <<".", "global">>,
      <<":", "global">>, <<"(", "a", ")">>, <<"(", ".", "a", ")">>, <<" ">> }

RECURSIVE Concat(_)
Concat(ps) == IF ps = <<>> THEN <<>> ELSE Head(ps) \o Concat(Tail(ps))

\* rule.selectors yields trimmed, non-empty selectors; a parenthesis is the
\* argument list of global / :global
WellFormed(s) ==
    /\ Len(s) > 0 /\ ~IsSpace(s[1]) /\ ~IsSpace(s[Len(s)])
    /\ \A i \in 1..Len(s) : s[i] = "(" => At(s, i - 1) = "global"

Selectors ==
    { s \in { Concat(ps) : ps \in UNION { [1..n -> SelParts] : n \in 1..MaxSelParts } } :
        WellFormed(s) }

SelInit ==
    /\ selector \in Selectors
    /\ selVariant = "none"
    /\ selClasses = <<>>
    /\ css = <<>>
    /\ indexVariant = "none"
    /\ index = <<>>
    /\ languageId = "css"
    /\ line = <<>>
    /\ position = 0
    /\ completion = NoCompletion
    /\ LifeIdle
    /\ ImportIdle
    /\ PanelIdle

HoverExtract ==
    /\ selVariant' = "hover"
    /\ selClasses' = extractClasses(selector)
    /\ UNCHANGED <<selector, cssVars, docVars, completion, lifeVars, messages,
                   importVars, panelVars>>

CompletionExtract ==
    /\ selVariant' = "completion"
    /\ selClasses' = parseCssClasses_selector(selector)
    /\ UNCHANGED <<selector, cssVars, docVars, completion, lifeVars, messages,
                   importVars, panelVars>>

PanelExtract ==
    /\ selVariant' = "panel"
    /\ selClasses' = refresh_className(selector)
    /\ UNCHANGED <<selector, cssVars, docVars, completion, lifeVars, messages,
                   importVars, panelVars>>

SelNext == HoverExtract \/ CompletionExtract \/ PanelExtract

SpecSel == SelInit /\ [][SelNext]_vars

----------------------------------------------------------------------------
(* Claims about the extraction from one selector (SpecSel). *)

Range(seq) == { seq[i] : i \in 1..Len(seq) }

\* the selector is written in the global-function or the :global-prefix syntax
IsGlobalSyntax(sel) == globalMatches(sel) # <<>> \/ globalPrefixMatches(sel) # <<>>

\* the name the first matching syntax captures, leading dot stripped
FirstSyntaxName(sel) ==
    IF globalMatches(sel) # <<>> THEN StripDot(globalMatches(sel)[1])
    ELSE StripDot(globalPrefixMatches(sel)[1])

\* every dot-prefixed token of a selector: a dot and the whole word after it
DotTokens(sel) ==
    { SubSeq(sel, i + 1, j) : <<i, j>> \in
        { p \in (1..Len(sel)) \X (1..Len(sel)) :
            /\ p[1] < p[2]
            /\ sel[p[1]] = "."
            /\ \A k \in (p[1] + 1)..p[2] : IsWord(sel[k])
            /\ ~IsWord(At(sel, p[2] + 1)) } }

\* C1: a selector in global-function or :global-prefix syntax yields exactly
\* one class name, the one captured by the first syntax that matches, and
\* the plain-class rule adds nothing to it.
C1_GlobalSyntaxYieldsOneName ==
    (selVariant # "none" /\ IsGlobalSyntax(selector))
        => { StripDot(n) : n \in Range(selClasses) } = { FirstSyntaxName(selector) }

\* C2: a selector in neither global syntax yields every dot-prefixed token,
\* in the completion list, the hover index and the panel list alike.
C2_PlainSelectorYieldsEveryDotToken ==
    (selVariant # "none" /\ ~IsGlobalSyntax(selector))
        => Range(selClasses) = DotTokens(selector)

\* C8: no class name produced from a global-function or :global-prefix
\* selector starts with a dot, in completion, hover and panel.
C8_GlobalNameHasNoLeadingDot ==
    (selVariant # "none" /\ IsGlobalSyntax(selector))
        => \A n \in Range(selClasses) : ~StartsWithDot(n)

----------------------------------------------------------------------------
(* The stylesheet after postcss.parse.  walkRules visits the style rules   *)
(* in document order; a rule is kept with the chain of at-rules around it  *)
(* (outermost first), its list of selectors and its declarations.          *)
(*   rule == [parents   : Seq([name, params]),                             *)
(*            selectors : Seq(selector),                                   *)
(*            nodes     : Seq([prop, value])]                              *)
(* The text built for a class is a sequence of lines:                      *)
(*   [kind |-> "decl",  params |-> "", decls |-> <<d>>]   one declaration  *)
(*   [kind |-> "media", params |-> q,  decls |-> <<d..>>] an @media block  *)
(* with d == [prop, value, semi], semi telling whether the line ends in    *)
(* a semicolon.                                                            *)

Last(seq) == seq[Len(seq)]

\* rule.parent?.type === 'atrule' && rule.parent.name === name
ParentIs(rule, name) ==
    Len(rule.parents) > 0 /\ Last(rule.parents).name = name

\* parentAtRule.params
ParentParams(rule) == Last(rule.parents).params

\* position of the first element of seq with the given key, or 0
RECURSIVE IndexOfKey(_, _, _)
IndexOfKey(seq, key, i) ==
    IF i > Len(seq) THEN 0
    ELSE IF seq[i].key = key THEN i
    ELSE IndexOfKey(seq, key, i + 1)

\* isSameRule: same selector text, same number of declarations, and every
\* declaration of rule1 found in rule2
isSameRule(rule1, rule2) ==
    /\ rule1.selectors = rule2.selectors
    /\ Len(rule1.nodes) = Len(rule2.nodes)
    /\ \A i \in 1..Len(rule1.nodes) :
           \E j \in 1..Len(rule2.nodes) :
               /\ rule2.nodes[j].prop = rule1.nodes[i].prop
               /\ rule2.nodes[j].value = rule1.nodes[i].value

\* rules.some(existing => isSameRule(existing, rule)) ; push unless duplicate.
\* The earlier variant of the hover provider pushes without the check.
PushRule(rules, rule, dedup) ==
    IF dedup /\ \E i \in 1..Len(rules) : isSameRule(rules[i], rule)
    THEN rules
    ELSE Append(rules, rule)

\* classRules after one (rule, className) pair: get or create the entry of
\* the class, then attach the rule to its media bucket or to its rules
AttachRule(classRules, className, rule, dedup) ==
    LET withEntry ==
            IF IndexOfKey(classRules, className, 1) = 0
            THEN Append(classRules,
                        [key |-> className, rules |-> <<>>, medias |-> <<>>])
            ELSE classRules
        e == IndexOfKey(withEntry, className, 1)
        entry == withEntry[e]
    IN  IF ParentIs(rule, "media")
        THEN LET withBucket ==
                     IF IndexOfKey(entry.medias, ParentParams(rule), 1) = 0
                     THEN Append(entry.medias,
                                 [key |-> ParentParams(rule), rules |-> <<>>])
                     ELSE entry.medias
                 b == IndexOfKey(withBucket, ParentParams(rule), 1)
             IN  [withEntry EXCEPT ![e].medias =
                     [withBucket EXCEPT ![b].rules =
                         PushRule(withBucket[b].rules, rule, dedup)]]
        ELSE [withEntry EXCEPT ![e].rules = PushRule(entry.rules, rule, dedup)]

\* extractClasses of the earlier hover provider: plain classes and global()
extractClasses_earlier(sel) == simpleMatches(sel) \o globalFuncMatches(sel)

\* the class names of all selectors of a rule, in order
RECURSIVE RuleClasses(_, _)
RuleClasses(selectors, current) ==
    IF selectors = <<>> THEN <<>>
    ELSE (IF current THEN extractClasses(Head(selectors))
                     ELSE extractClasses_earlier(Head(selectors)))
             \o RuleClasses(Tail(selectors), current)

RECURSIVE AttachClasses(_, _, _, _)
AttachClasses(classRules, classes, rule, dedup) ==
    IF classes = <<>> THEN classRules
    ELSE AttachClasses(AttachRule(classRules, Head(classes), rule, dedup),
                       Tail(classes), rule, dedup)

\* ast.walkRules(...) of extractClassDefinitions: rules under @keyframes are
\* skipped, every other rule is attached to each class of each selector
RECURSIVE WalkClassRules(_, _, _)
WalkClassRules(rules, classRules, current) ==
    IF rules = <<>> THEN classRules
    ELSE LET rule == Head(rules)
         IN  IF ParentIs(rule, "keyframes")
             THEN WalkClassRules(Tail(rules), classRules, current)
             ELSE WalkClassRules(
                      Tail(rules),
                      AttachClasses(classRules,
                                    RuleClasses(rule.selectors, current),
                                    rule, current),
                      current)

\* all declarations of a list of rules, rule by rule
RECURSIVE AllDecls(_)
AllDecls(rules) ==
    IF rules = <<>> THEN <<>> ELSE Head(rules).nodes \o AllDecls(Tail(rules))

\* processedProps: a declaration is kept when its property was not seen
\* before in the same bucket (the first declaration of a property stays).
\* The earlier variant keeps every declaration.
KeepFirstOfProp(decls, unique) ==
    IF unique
    THEN SelectSeq([i \in 1..Len(decls) |-> [at |-> i, d |-> decls[i]]],
                   LAMBDA e : \A j \in 1..(e.at - 1) : decls[j].prop # e.d.prop)
    ELSE [i \in 1..Len(decls) |-> [at |-> i, d |-> decls[i]]]

\* node.toString() of a declaration: "prop: value", no semicolon
DeclLine(d, semi) == [prop |-> d.prop, value |-> d.value, semi |-> semi]

\* the properties text of one class: the regular rules' declarations, one
\* line each, then one "@media <query> { ... }" block per media bucket
FormatEntry(entry, unique) ==
    LET top == KeepFirstOfProp(AllDecls(entry.rules), unique)
    IN  [i \in 1..Len(top) |->
            [kind |-> "decl", params |-> "",
             decls |-> <<DeclLine(top[i].d, FALSE)>>]]
        \o
        [m \in 1..Len(entry.medias) |->
            LET body == KeepFirstOfProp(AllDecls(entry.medias[m].rules), unique)
            IN  [kind |-> "media", params |-> entry.medias[m].key,
                 decls |-> [i \in 1..Len(body) |-> DeclLine(body[i].d, FALSE)]]]

\* for (const [className, {rules, medias}] of classRules.entries()):
\* classDefinitions.set(className, properties) when properties is not empty
FormatClassRules(classRules, unique) ==
    LET all == [i \in 1..Len(classRules) |->
                   [className |-> classRules[i].key,
                    properties |-> FormatEntry(classRules[i], unique)]]
    IN  SelectSeq(all, LAMBDA e : e.properties # <<>>)

\* CustomCssHoverProvider.extractClassDefinitions, on a cleared map
extractClassDefinitions(ast) ==
    FormatClassRules(WalkClassRules(ast, <<>>, TRUE), TRUE)

\* the earlier variant: no duplicate check, no processedProps
extractClassDefinitions_earlier(ast) ==
    FormatClassRules(WalkClassRules(ast, <<>>, FALSE), FALSE)

----------------------------------------------------------------------------
(* The completion provider's class list. *)

RECURSIVE SelectorsClasses(_)
SelectorsClasses(selectors) ==
    IF selectors = <<>> THEN <<>>
    ELSE parseCssClasses_selector(Head(selectors))
             \o SelectorsClasses(Tail(selectors))

RECURSIVE WalkCssClasses(_)
WalkCssClasses(rules) ==
    IF rules = <<>> THEN <<>>
    ELSE IF ParentIs(Head(rules), "keyframes") THEN WalkCssClasses(Tail(rules))
    ELSE SelectorsClasses(Head(rules).selectors) \o WalkCssClasses(Tail(rules))

\* Array.from(new Set([...cssClasses])): first occurrences, in order
RECURSIVE RemoveDuplicates(_, _)
RemoveDuplicates(seq, seen) ==
    IF seq = <<>> THEN <<>>
    ELSE IF Head(seq) \in seen THEN RemoveDuplicates(Tail(seq), seen)
    ELSE <<Head(seq)>> \o RemoveDuplicates(Tail(seq), seen \cup {Head(seq)})

parseCssClasses(cssAst) == RemoveDuplicates(WalkCssClasses(cssAst), {})

----------------------------------------------------------------------------
(* The class explorer panel's list. *)

\* the names a media query text holds in front of a colon, which
\* /\s*([a-zA-Z\-]+):/g finds in the text built so far like property names
ColonNames(params) ==
    IF params = "(min-width: 600px)" THEN {"min-width"} ELSE {}

\* processedProps: every name followed by a colon in the existing text
ProcessedProps(text) ==
    UNION { { text[i].decls[j].prop : j \in 1..Len(text[i].decls) }
                \cup ColonNames(text[i].params) : i \in 1..Len(text) }

\* the declarations of the rule whose property is not in processedProps,
\* each as `${node.prop}: ${node.value};`
NewProps(rule, processedProps) ==
    LET kept == SelectSeq(rule.nodes, LAMBDA d : d.prop \notin processedProps)
    IN  [i \in 1..Len(kept) |-> DeclLine(kept[i], TRUE)]

\* classProperties.get(className) || ''
GetProps(classProperties, className) ==
    IF IndexOfKey(classProperties, className, 1) = 0 THEN <<>>
    ELSE classProperties[IndexOfKey(classProperties, className, 1)].properties

\* classProperties.set(className, text): a new key goes last
SetProps(classProperties, className, text) ==
    IF IndexOfKey(classProperties, className, 1) = 0
    THEN Append(classProperties,
                [key |-> className, className |-> className, properties |-> text])
    ELSE [classProperties EXCEPT
              ![IndexOfKey(classProperties, className, 1)].properties = text]

\* one selector of one rule: the class name, then the new declarations
\* appended to the class's text, as an @media block under a media parent
RefreshSelector(classProperties, rule, sel) ==
    IF refresh_className(sel) = <<>> \/ refresh_className(sel)[1] = <<>>
    THEN classProperties
    ELSE LET className == refresh_className(sel)[1]
             existingProps == GetProps(classProperties, className)
             new == NewProps(rule, ProcessedProps(existingProps))
         IN  IF new = <<>> THEN classProperties
             ELSE IF ParentIs(rule, "media")
             THEN SetProps(classProperties, className,
                      Append(existingProps,
                             [kind |-> "media", params |-> ParentParams(rule),
                              decls |-> new]))
             ELSE SetProps(classProperties, className,
                      existingProps \o
                      [i \in 1..Len(new) |->
                          [kind |-> "decl", params |-> "", decls |-> <<new[i]>>]])

RECURSIVE RefreshSelectors(_, _, _)
RefreshSelectors(classProperties, rule, selectors) ==
    IF selectors = <<>> THEN classProperties
    ELSE RefreshSelectors(RefreshSelector(classProperties, rule, Head(selectors)),
                          rule, Tail(selectors))

RECURSIVE WalkRefresh(_, _)
WalkRefresh(rules, classProperties) ==
    IF rules = <<>> THEN classProperties
    ELSE IF ParentIs(Head(rules), "keyframes")
    THEN WalkRefresh(Tail(rules), classProperties)
    ELSE WalkRefresh(Tail(rules),
                     RefreshSelectors(classProperties, Head(rules),
                                      Head(rules).selectors))

\* this._classUsages = Array.from(classProperties.entries()).map(...)
refresh_classUsages(ast) ==
    LET classProperties == WalkRefresh(ast, <<>>)
    IN  [i \in 1..Len(classProperties) |->
            [className |-> classProperties[i].className,
             properties |-> classProperties[i].properties]]

----------------------------------------------------------------------------
(* The first hover provider (cssCache): parseCssProperties. *)

\* properties.set(className, props) for the global() match of a selector;
\* the rule's declarations replace what the class had
PropertiesSelector(properties, rule, sel) ==
    IF globalMatches(sel) = <<>> THEN properties
    ELSE SetProps(properties, globalMatches(sel)[1],
                  [i \in 1..Len(rule.nodes) |->
                      [kind |-> "decl", params |-> "",
                       decls |-> <<DeclLine(rule.nodes[i], TRUE)>>]])

RECURSIVE PropertiesSelectors(_, _, _)
PropertiesSelectors(properties, rule, selectors) ==
    IF selectors = <<>> THEN properties
    ELSE PropertiesSelectors(PropertiesSelector(properties, rule, Head(selectors)),
                             rule, Tail(selectors))

\* ast.walkRules without any check of the rule's parent
RECURSIVE WalkProperties(_, _)
WalkProperties(rules, properties) ==
    IF rules = <<>> THEN properties
    ELSE WalkProperties(Tail(rules),
                        PropertiesSelectors(properties, Head(rules),
                                            Head(rules).selectors))

parseCssProperties(ast) ==
    LET properties == WalkProperties(ast, <<>>)
    IN  [i \in 1..Len(properties) |->
            [className |-> properties[i].className,
             properties |-> properties[i].properties]]

----------------------------------------------------------------------------
(* Specification SpecCss: one parsed stylesheet, the index builders        *)
(* applied to it.                                                          *)

MaxRules == 2

MediaQuery == "(min-width: 600px)"

CssSelectors == { <<".", "a">>, <<":", "global", "(", ".", "a", ")">> }

CssParents ==
    { <<>>,
      <<[name |-> "media", params |-> MediaQuery]>>,
      <<[name |-> "media", params |-> "print"]>>,
      <<[name |-> "keyframes", params |-> "spin"]>>,
      <<[name |-> "media", params |-> MediaQuery],
        [name |-> "supports", params |-> "(display: grid)"]>> }

CssDeclLists ==
    { <<[prop |-> "color", value |-> "red"]>>,
      <<[prop |-> "color", value |-> "blue"]>>,
      <<[prop |-> "min-width", value |-> "4px"],
        [prop |-> "color", value |-> "red"]>>,
      <<[prop |-> "color", value |-> "red"],
        [prop |-> "color", value |-> "red"]>> }

CssRules ==
    { [parents |-> p, selectors |-> <<sel>>, nodes |-> d] :
        p \in CssParents, sel \in CssSelectors, d \in CssDeclLists }

Stylesheets == UNION { [1..n -> CssRules] : n \in 0..MaxRules }

\* an index of class names alone (the completion list)
NamesOnly(names) ==
    [i \in 1..Len(names) |-> [className |-> names[i], properties |-> <<>>]]

CssInit ==
    /\ css \in Stylesheets
    /\ indexVariant = "none"
    /\ index = <<>>
    /\ selector = <<>>
    /\ selVariant = "none"
    /\ selClasses = <<>>
    /\ languageId = "css"
    /\ line = <<>>
    /\ position = 0
    /\ completion = NoCompletion
    /\ LifeIdle
    /\ ImportIdle
    /\ PanelIdle

\* CustomCssHoverProvider.updateClassDefinitions: clear, parse, extract
UpdateClassDefinitions ==
    /\ indexVariant' = "hover"
    /\ index' = extractClassDefinitions(css)
    /\ UNCHANGED <<css, selVars, docVars, completion, lifeVars, messages,
                   importVars, panelVars>>

\* the same handler of the earlier hover provider
UpdateClassDefinitionsEarlier ==
    /\ indexVariant' = "hoverEarlier"
    /\ index' = extractClassDefinitions_earlier(css)
    /\ UNCHANGED <<css, selVars, docVars, completion, lifeVars, messages,
                   importVars, panelVars>>

\* getCssProperties of the first hover provider fills its cssCache
GetCssProperties ==
    /\ indexVariant' = "hoverFirst"
    /\ index' = parseCssProperties(css)
    /\ UNCHANGED <<css, selVars, docVars, completion, lifeVars, messages,
                   importVars, panelVars>>

\* CustomCssCompletionProvider.getCssClasses
GetCssClasses ==
    /\ indexVariant' = "completion"
    /\ index' = NamesOnly(parseCssClasses(css))
    /\ UNCHANGED <<css, selVars, docVars, completion, lifeVars, messages,
                   importVars, panelVars>>

\* CssClassesPanel._refresh
PanelRefresh ==
    /\ indexVariant' = "panel"
    /\ index' = refresh_classUsages(css)
    /\ UNCHANGED <<css, selVars, docVars, completion, lifeVars, messages,
                   importVars, panelVars>>

CssNext ==
    \/ UpdateClassDefinitions
    \/ UpdateClassDefinitionsEarlier
    \/ GetCssProperties
    \/ GetCssClasses
    \/ PanelRefresh

SpecCss == CssInit /\ [][CssNext]_vars

----------------------------------------------------------------------------
(* Claims about the index built from a stylesheet (SpecCss). *)

\* the index a builder makes of a stylesheet
BuildIndex(variant, ast) ==
    CASE variant = "hover" -> extractClassDefinitions(ast)
      [] variant = "hoverEarlier" -> extractClassDefinitions_earlier(ast)
      [] variant = "hoverFirst" -> parseCssProperties(ast)
      [] variant = "completion" -> NamesOnly(parseCssClasses(ast))
      [] variant = "panel" -> refresh_classUsages(ast)
      [] OTHER -> <<>>

\* the class names a builder takes from one selector
VariantClasses(variant, sel) ==
    CASE variant \in {"hover"} -> Range(extractClasses(sel))
      [] variant = "hoverEarlier" -> Range(extractClasses_earlier(sel))
      [] variant = "hoverFirst" -> Range(globalMatches(sel))
      [] variant = "completion" -> Range(parseCssClasses_selector(sel))
      [] variant = "panel" -> Range(refresh_className(sel))
      [] OTHER -> {}

RuleYields(variant, rule, className) ==
    \E i \in 1..Len(rule.selectors) :
        className \in VariantClasses(variant, rule.selectors[i])

\* some @media at-rule is among the rule's ancestors
InMedia(rule) == \E i \in 1..Len(rule.parents) : rule.parents[i].name = "media"

InMediaWith(rule, params) ==
    \E i \in 1..Len(rule.parents) :
        rule.parents[i].name = "media" /\ rule.parents[i].params = params

HasDecl(rule, prop, value) ==
    \E i \in 1..Len(rule.nodes) :
        rule.nodes[i].prop = prop /\ rule.nodes[i].value = value

HasProp(rule, prop) == \E i \in 1..Len(rule.nodes) : rule.nodes[i].prop = prop

\* the top-level lines and the media blocks of a class's text
TopLines(text) == { i \in 1..Len(text) : text[i].kind = "decl" }

MediaBlocks(text) == { i \in 1..Len(text) : text[i].kind = "media" }

\* C3: a style rule whose parent is @keyframes contributes no class name
\* and no declarations: every builder makes of the stylesheet the index it
\* makes of the stylesheet without the rules under @keyframes.
C3_KeyframesRulesContributeNothing ==
    indexVariant # "none"
        => index = BuildIndex(indexVariant,
                       SelectSeq(css, LAMBDA r : ~ParentIs(r, "keyframes")))

\* C4: the declarations of a rule nested in @media <params>, directly or
\* through another at-rule, are in the media bucket keyed by params and
\* never in the top-level bucket: every top-level line of a class comes from
\* a rule outside any @media, every line of an @media block from a rule
\* inside an @media with those params.
C4_MediaRulesGoToMediaBucket ==
    indexVariant \in {"hover", "panel"}
        => \A e \in 1..Len(index) :
             LET text == index[e].properties
             IN  /\ \A i \in TopLines(text) :
                       \E r \in 1..Len(css) :
                           /\ ~InMedia(css[r])
                           /\ HasDecl(css[r], text[i].decls[1].prop,
                                      text[i].decls[1].value)
                 /\ \A i \in MediaBlocks(text) :
                       \A j \in 1..Len(text[i].decls) :
                           \E r \in 1..Len(css) :
                               /\ InMediaWith(css[r], text[i].params)
                               /\ HasDecl(css[r], text[i].decls[j].prop,
                                          text[i].decls[j].value)

\* C5: no deduplication across buckets: when a class declares a property at
\* top level and again directly inside @media M, its text has a top-level
\* line for the property and an @media M block with a line for it, in the
\* hover index and in the panel list.
C5_NoDeduplicationAcrossBuckets ==
    indexVariant \in {"hover", "panel"}
        => \A r1, r2 \in 1..Len(css) : \A e \in 1..Len(index) :
             \A p \in {"color", "min-width"} :
               ( /\ css[r1].parents = <<>>
                 /\ ParentIs(css[r2], "media")
                 /\ HasProp(css[r1], p) /\ HasProp(css[r2], p)
                 /\ RuleYields(indexVariant, css[r1], index[e].className)
                 /\ RuleYields(indexVariant, css[r2], index[e].className) )
               => LET text == index[e].properties
                  IN  /\ \E i \in TopLines(text) : text[i].decls[1].prop = p
                      /\ \E i \in MediaBlocks(text) :
                            /\ text[i].params = ParentParams(css[r2])
                            /\ \E j \in 1..Len(text[i].decls) :
                                   text[i].decls[j].prop = p

\* the declarations a class receives in its top-level bucket, in order
RECURSIVE TopDeclsOf(_, _, _)
TopDeclsOf(variant, rules, className) ==
    IF rules = <<>> THEN <<>>
    ELSE (IF /\ ~ParentIs(Head(rules), "keyframes")
             /\ ~ParentIs(Head(rules), "media")
             /\ RuleYields(variant, Head(rules), className)
          THEN Head(rules).nodes ELSE <<>>)
             \o TopDeclsOf(variant, Tail(rules), className)

\* C6: within a bucket the last declaration of a property wins: every
\* top-level line of a class shows the value of the last declaration of its
\* property among the declarations the class received at top level.
C6_LastDeclarationWins ==
    indexVariant \in {"hover", "panel"}
        => \A e \in 1..Len(index) :
             LET text == index[e].properties
                 decls == TopDeclsOf(indexVariant, css, index[e].className)
             IN  \A i \in TopLines(text) :
                   \A k \in 1..Len(decls) :
                     ( /\ decls[k].prop = text[i].decls[1].prop
                       /\ \A l \in (k + 1)..Len(decls) :
                              decls[l].prop # decls[k].prop )
                     => text[i].decls[1].value = decls[k].value

\* the stylesheet without the rules that repeat an earlier rule exactly
\* (same at-rules around it, same selector text, same declarations)
WithoutRepeats(rules) ==
    LET at == [i \in 1..Len(rules) |-> [at |-> i, rule |-> rules[i]]]
        kept == SelectSeq(at, LAMBDA x : \A j \in 1..(x.at - 1) : rules[j] # x.rule)
    IN  [i \in 1..Len(kept) |-> kept[i].rule]

\* C7: duplicate-rule suppression: repeating an identical rule leaves the
\* class records and their text as a single occurrence gives them.
C7_RepeatedRuleAttachedOnce ==
    indexVariant \in {"hover", "hoverEarlier"}
        => index = BuildIndex(indexVariant, WithoutRepeats(css))

\* C25: in the text of every class of the hover index and of the panel
\* list, all top-level declarations come first, each on a line of its own
\* ending in a semicolon (property: value;), and every @media block comes
\* after them, whatever the order of the rules in the stylesheet.
C25_TopLevelFirstThenMedia ==
    indexVariant \in {"hover", "panel"} =>
        \A e \in 1..Len(index) :
            LET text == index[e].properties
            IN  /\ \A i \in TopLines(text), j \in MediaBlocks(text) : i < j
                /\ \A i \in TopLines(text) :
                      Len(text[i].decls) = 1 /\ text[i].decls[1].semi

\* the set of (property, value) pairs of a rule's declarations
DeclSet(rule) ==
    { <<rule.nodes[i].prop, rule.nodes[i].value>> : i \in 1..Len(rule.nodes) }

\* C28: isSameRule is a value equality on (selector text, declaration set):
\* for any two rules of the stylesheet handed to the hover provider it gives
\* the same answer in both directions, and it is true exactly when the
\* selectors are equal and the sets of (property, value) pairs are equal,
\* also when a rule repeats a declaration.
C28_IsSameRuleIsValueEquality ==
    indexVariant = "hover" =>
        \A i, j \in 1..Len(css) :
            /\ isSameRule(css[i], css[j]) = isSameRule(css[j], css[i])
            /\ isSameRule(css[i], css[j])
                   <=> ( /\ css[i].selectors = css[j].selectors
                         /\ DeclSet(css[i]) = DeclSet(css[j]) )

----------------------------------------------------------------------------
(* The completion provider: the context of the cursor on its line. *)

\* ["']
IsQuote(t) == t \in {"\"", "'"}

\* (class|className)
IsClassAttr(t) == t \in {"class", "className"}

\* length of the run of \s that ends at s[i], read backwards
RECURSIVE SpaceRunBack(_, _)
SpaceRunBack(s, i) ==
    IF i < 1 THEN 0
    ELSE IF IsSpace(s[i]) THEN 1 + SpaceRunBack(s, i - 1) ELSE 0

\* length of the run of [^"'] that ends at s[i], read backwards
RECURSIVE NonQuoteRunBack(_, _)
NonQuoteRunBack(s, i) ==
    IF i < 1 THEN 0
    ELSE IF ~IsQuote(s[i]) THEN 1 + NonQuoteRunBack(s, i - 1) ELSE 0

\* (class|className)\s*= with the "=" at s[e]
AttrEqualsAt(s, e) ==
    /\ At(s, e) = "="
    /\ IsClassAttr(At(s, e - 1 - SpaceRunBack(s, e - 1)))

\* /(class|className)\s*=\s*["']([^"']*)$/ : <<>> or <<group 2>>.  The
\* pattern is anchored at the end: [^"']* is the text after the last quote.
matchInsideQuotes(linePrefix) ==
    LET q == Len(linePrefix) - NonQuoteRunBack(linePrefix, Len(linePrefix))
    IN  IF q >= 1 /\ AttrEqualsAt(linePrefix, q - 1 - SpaceRunBack(linePrefix, q - 1))
        THEN <<SubSeq(linePrefix, q + 1, Len(linePrefix))>>
        ELSE <<>>

\* /(class|className)\s*=\s*$/
matchAfterEquals(linePrefix) ==
    AttrEqualsAt(linePrefix,
                 Len(linePrefix) - SpaceRunBack(linePrefix, Len(linePrefix)))

isInClassContext(linePrefix) ==
    matchInsideQuotes(linePrefix) # <<>> \/ matchAfterEquals(linePrefix)

\* text.split(/\s+/).filter(Boolean): the non-empty pieces between spaces
RECURSIVE SplitSpaces(_, _)
SplitSpaces(text, piece) ==
    IF text = <<>> THEN (IF piece = <<>> THEN <<>> ELSE <<piece>>)
    ELSE IF IsSpace(Head(text))
         THEN (IF piece = <<>> THEN <<>> ELSE <<piece>>)
                  \o SplitSpaces(Tail(text), <<>>)
         ELSE SplitSpaces(Tail(text), Append(piece, Head(text)))

\* the text inside the open quote taken as one class, not split
currentClasses_whole(linePrefix) ==
    IF matchInsideQuotes(linePrefix) = <<>> THEN <<>>
    ELSE <<matchInsideQuotes(linePrefix)[1]>>

currentClasses(linePrefix) ==
    IF matchInsideQuotes(linePrefix) = <<>> THEN <<>>
    ELSE SplitSpaces(matchInsideQuotes(linePrefix)[1], <<>>)

\* Array.prototype.includes on class names
Includes(seq, x) == \E i \in 1..Len(seq) : seq[i] = x

\* line.slice(0, position.character)
LinePrefix(text, character) == SubSeq(text, 1, character)

\* handleHtmlCompletion: [] outside a class context, else every class of the
\* stylesheet that is not on the line yet, with a space in front when the
\* attribute already holds a class
handleHtmlCompletion(text, character, cssClasses) ==
    LET linePrefix == LinePrefix(text, character)
        existing == currentClasses(linePrefix)
        fresh == SelectSeq(cssClasses, LAMBDA c : ~Includes(existing, c))
    IN  IF ~isInClassContext(linePrefix)
        THEN [status |-> "done", applicable |-> FALSE,
              existing |-> <<>>, items |-> <<>>]
        ELSE [status |-> "done", applicable |-> TRUE, existing |-> existing,
              items |-> [i \in 1..Len(fresh) |->
                            [label |-> fresh[i],
                             insertText |-> IF Len(existing) > 0
                                            THEN <<" ">> \o fresh[i]
                                            ELSE fresh[i]]]]

\* the tokens of a literal the code searches for
FromGlobalSemi == <<"from", " ", "global", ";">>

\* String.prototype.lastIndexOf of a one-token literal: 0-based, or -1
RECURSIVE LastIndexOf(_, _, _)
LastIndexOf(text, token, i) ==
    IF i < 1 THEN -1
    ELSE IF text[i] = token THEN i - 1
    ELSE LastIndexOf(text, token, i - 1)

\* String.prototype.indexOf of a literal: 0-based, or -1
RECURSIVE IndexOf(_, _, _)
IndexOf(text, literal, i) ==
    IF i + Len(literal) - 1 > Len(text) THEN -1
    ELSE IF SubSeq(text, i, i + Len(literal) - 1) = literal THEN i - 1
    ELSE IndexOf(text, literal, i + 1)

\* String.prototype.trim: white space off both ends
RECURSIVE Trim(_)
Trim(text) ==
    IF text = <<>> THEN <<>>
    ELSE IF IsSpace(Head(text)) THEN Trim(Tail(text))
    ELSE IF IsSpace(Last(text)) THEN Trim(SubSeq(text, 1, Len(text) - 1))
    ELSE text

\* text.split(' '): the pieces between single space characters, empty
\* pieces kept; no other white space separates
RECURSIVE SplitOnSpace(_, _)
SplitOnSpace(text, piece) ==
    IF text = <<>> THEN <<piece>>
    ELSE IF Head(text) = " "
         THEN <<piece>> \o SplitOnSpace(Tail(text), <<>>)
         ELSE SplitOnSpace(Tail(text), Append(piece, Head(text)))

\* createCompletionItems: the classes not among existingClasses.split(' '),
\* each inserted as it is
createCompletionItems(cssClasses, existingClasses) ==
    LET pieces == SplitOnSpace(existingClasses, <<>>)
        fresh == SelectSeq(cssClasses, LAMBDA c : ~Includes(pieces, c))
    IN  [i \in 1..Len(fresh) |-> [label |-> fresh[i], insertText |-> fresh[i]]]

\* handleCssCompletion: [] unless the cursor is not before the last
\* "composes:" and "from global;" follows that "composes:"
handleCssCompletion(text, character, cssClasses) ==
    LET composesIndex == LastIndexOf(text, "composes:", Len(text))
        textAfterComposes == SubSeq(text, composesIndex + 2, Len(text))
        fromGlobalIndex == IndexOf(textAfterComposes, FromGlobalSemi, 1)
        classNames == Trim(SubSeq(textAfterComposes, 1, fromGlobalIndex))
    IN  IF composesIndex = -1 \/ character < composesIndex \/ fromGlobalIndex = -1
        THEN [status |-> "done", applicable |-> FALSE,
              existing |-> <<>>, items |-> <<>>]
        ELSE [status |-> "done", applicable |-> TRUE,
              existing |-> SplitOnSpace(classNames, <<>>),
              items |-> createCompletionItems(cssClasses, classNames)]

\* one entry of what the extension shows or logs
Message(channel, text) == [channel |-> channel, text |-> text]

\* getCssClasses: the class names of the configured stylesheet, or [] with
\* a console warning (no path, no workspace folder) or an error message
\* (the file or one of its imports cannot be read)
getCssClasses(e, ast) ==
    IF ~e.cssPath
    THEN [classes |-> <<>>,
          messages |-> <<Message("console.warn", "CSS path not configured")>>]
    ELSE IF ~e.workspaceFolder
    THEN [classes |-> <<>>,
          messages |-> <<Message("console.warn", "No workspace folder found")>>]
    ELSE IF ~e.readable \/ ~e.importsResolve
    THEN [classes |-> <<>>,
          messages |-> <<Message("window.showErrorMessage",
                                 "Failed to read CSS file")>>]
    ELSE [classes |-> parseCssClasses(ast), messages |-> <<>>]

----------------------------------------------------------------------------
(* Specification SpecCompletion: one document line, one cursor, one        *)
(* completion request.                                                     *)

MaxCssLineParts == 4

MaxMarkupLineParts == 4

MaxJsxLineParts == 4

CssLineParts ==
    { <<"composes:", " ">>, <<"a", " ">>, <<"b", " ">>, <<"a", "\t">>,
      <<"from", " ", "global">>, <<";">>, <<"a">>,
      <<"from", " ", "global", ";">> }

MarkupLineParts ==
    { <<"class">>, <<"className">>, <<"=">>, <<"\"">>, <<"'">>, <<" ">>,
      <<"b">>, <<"a", " ">>, <<"class", "=", "\"">>, <<"className", "=", "'">> }

\* two words never touch: a word runs up to white space, ";" or the end;
\* a ";" ends the line
WordsSeparated(text) ==
    \A i \in 1..(Len(text) - 1) :
        /\ text[i] \in {"a", "b", "from", "global", "cond"}
              => text[i + 1] \notin {"a", "b", "from", "global", "cond", "composes:"}
        /\ text[i] # ";"

CssLines ==
    { l \in { Concat(ps) : ps \in UNION { [1..n -> CssLineParts] :
                                            n \in 0..MaxCssLineParts } } :
        WordsSeparated(l) }

\* the back-tick character
Backtick == "<backtick>"

\* pieces of a JSX line: a template literal or a conditional expression
\* inside className={...}
JsxLineParts ==
    { <<"className", "=", "{">>, <<Backtick>>, <<"\"">>, <<"a", " ">>, <<"b">>,
      <<"cond", " ", "?", " ">>, <<"}">> }

JsxLines ==
    { l \in { Concat(ps) : ps \in UNION { [1..n -> JsxLineParts] :
                                            n \in 0..MaxJsxLineParts } } :
        WordsSeparated(l) }

MarkupLines ==
    { Concat(ps) : ps \in UNION { [1..n -> MarkupLineParts] : n \in 0..MaxMarkupLineParts } }

\* the configured stylesheet: .a { color: red } .b { color: blue }
CompletionCss ==
    << [parents |-> <<>>, selectors |-> << <<".", "a">> >>,
        nodes |-> <<[prop |-> "color", value |-> "red"]>>],
       [parents |-> <<>>, selectors |-> << <<".", "b">> >>,
        nodes |-> <<[prop |-> "color", value |-> "blue"]>>] >>

MarkupLanguages == {"html", "javascript", "javascriptreact", "typescriptreact"}

\* one thing missing: the setting, the workspace folder, the file, an import
FailingEnvs ==
    { [OkEnv EXCEPT !.cssPath = FALSE], [OkEnv EXCEPT !.workspaceFolder = FALSE],
      [OkEnv EXCEPT !.readable = FALSE], [OkEnv EXCEPT !.importsResolve = FALSE] }

CompletionInit ==
    /\ \/ /\ env = OkEnv
          /\ \/ languageId = "css" /\ line \in CssLines
             \/ languageId = "html" /\ line \in MarkupLines
             \/ languageId \in {"javascriptreact", "typescriptreact"}
                   /\ line \in JsxLines
             \/ languageId = "typescript" /\ line = <<"className", "=", "\"">>
       \/ /\ env \in FailingEnvs
          /\ \/ /\ languageId = "css"
                /\ line = <<"composes:", " ", "a", " ", "from", " ", "global", ";">>
             \/ /\ languageId = "html"
                /\ line = <<"class", "=", "\"", "a", " ">>
    /\ position \in 0..Len(line)
    /\ completion = NoCompletion
    /\ clock = StartTime
    /\ lastUpdated = 0
    /\ tasks = <<>>
    /\ hovers = <<>>
    /\ fsEvents = <<>>
    /\ messages = <<>>
    /\ ImportIdle
    /\ PanelIdle
    /\ css = CompletionCss
    /\ indexVariant = "none"
    /\ index = <<>>
    /\ selector = <<>>
    /\ selVariant = "none"
    /\ selClasses = <<>>

\* provideCompletionItems in a CSS document
CompleteCss ==
    /\ completion.status = "idle"
    /\ languageId = "css"
    /\ completion' =
           handleCssCompletion(line, position, getCssClasses(env, css).classes)
    /\ messages' = IF completion'.applicable
                   THEN messages \o getCssClasses(env, css).messages
                   ELSE messages
    /\ UNCHANGED <<docVars, cssVars, selVars, lifeVars,
                   importVars, panelVars>>

\* provideCompletionItems in an HTML / JS / JSX / TSX document
CompleteMarkup ==
    /\ completion.status = "idle"
    /\ languageId \in MarkupLanguages
    /\ completion' =
           handleHtmlCompletion(line, position, getCssClasses(env, css).classes)
    /\ messages' = IF completion'.applicable
                   THEN messages \o getCssClasses(env, css).messages
                   ELSE messages
    /\ UNCHANGED <<docVars, cssVars, selVars, lifeVars,
                   importVars, panelVars>>

\* provideCompletionItems in any other document: return []
CompleteOther ==
    /\ completion.status = "idle"
    /\ languageId # "css" /\ languageId \notin MarkupLanguages
    /\ completion' = [status |-> "done", applicable |-> FALSE,
                      existing |-> <<>>, items |-> <<>>]
    /\ UNCHANGED <<docVars, cssVars, selVars, lifeVars, messages,
                   importVars, panelVars>>

CompletionNext == CompleteCss \/ CompleteMarkup \/ CompleteOther

SpecCompletion == CompletionInit /\ [][CompletionNext]_vars

----------------------------------------------------------------------------
(* Claims about the completion context, checked under SpecCompletion. *)

\* the text up to the cursor
Prefix == SubSeq(line, 1, position)

\* p[i..j] holds nothing but white space
OnlySpaces(p, i, j) == \A n \in i..j : p[n] = " "

\* an attribute name class / className at k and its "=" at e
AttrAndEquals(p, k, e) ==
    /\ p[k] \in {"class", "className"}
    /\ k < e
    /\ p[e] = "="
    /\ OnlySpaces(p, k + 1, e - 1)

\* p[q] opens a quoted class attribute and no quote follows it
OpensQuote(p, q) ==
    /\ p[q] \in {"\"", "'"}
    /\ \E k, e \in 1..Len(p) :
          AttrAndEquals(p, k, e) /\ e < q /\ OnlySpaces(p, e + 1, q - 1)
    /\ \A n \in (q + 1)..Len(p) : p[n] \notin {"\"", "'"}

OpenQuoted(p) == \E q \in 1..Len(p) : OpensQuote(p, q)

\* p ends after the "=" of a class attribute, no quote yet
JustAfterEquals(p) ==
    \E k, e \in 1..Len(p) : AttrAndEquals(p, k, e) /\ OnlySpaces(p, e + 1, Len(p))

\* the maximal runs without white space in p[(q+1)..Len(p)]
TokensAfter(p, q) ==
    { SubSeq(p, i, j) : <<i, j>> \in
        { ij \in ((q + 1)..Len(p)) \X ((q + 1)..Len(p)) :
            /\ ij[1] <= ij[2]
            /\ \A n \in ij[1]..ij[2] : p[n] # " "
            /\ (ij[1] = q + 1 \/ p[ij[1] - 1] = " ")
            /\ (ij[2] = Len(p) \/ p[ij[2] + 1] = " ") } }

\* the classes already typed inside the open quote
TypedClasses(p) ==
    IF OpenQuoted(p)
    THEN TokensAfter(p, CHOOSE q \in 1..Len(p) : OpensQuote(p, q))
    ELSE {}

FromGlobalAt(j) ==
    /\ j + 2 <= Len(line)
    /\ SubSeq(line, j, j + 2) = <<"from", " ", "global">>

\* C10: in a stylesheet document a completion request is applicable exactly
\* when the line holds a "composes:" at or before the cursor and a
\* "from global" (semicolon optional) later in the line; otherwise the
\* result is empty.
C10_ComposesCompletionContext ==
    (completion.status = "done" /\ languageId = "css") =>
        /\ completion.applicable <=>
              \E i \in 1..Len(line) :
                  /\ line[i] = "composes:"
                  /\ i - 1 <= position
                  /\ \E j \in (i + 1)..Len(line) : FromGlobalAt(j)
        /\ ~completion.applicable => completion.items = <<>>

----------------------------------------------------------------------------
(* Claims about the candidates of a completion request, checked under     *)
(* SpecCompletion.                                                         *)

\* the maximal runs without white space (space, tab) in p[lo..hi]
WsTokens(p, lo, hi) ==
    { SubSeq(p, ij[1], ij[2]) : ij \in
        { ij \in (lo..hi) \X (lo..hi) :
            /\ ij[1] <= ij[2]
            /\ \A n \in ij[1]..ij[2] : p[n] \notin {" ", "\t"}
            /\ (ij[1] = lo \/ p[ij[1] - 1] \in {" ", "\t"})
            /\ (ij[2] = hi \/ p[ij[2] + 1] \in {" ", "\t"}) } }

\* className={ ends at p[k]
ClassNameBraceAt(p, k) ==
    /\ k >= 3 /\ k <= Len(p)
    /\ p[k - 2] = "className" /\ p[k - 1] = "=" /\ p[k] = "{"

\* p[q] is the open backtick of a template literal right after className={
OpensTemplate(p, q) ==
    /\ q >= 1 /\ q <= Len(p) /\ p[q] = Backtick
    /\ \E k \in 1..Len(p) :
          ClassNameBraceAt(p, k) /\ k < q /\ OnlySpaces(p, k + 1, q - 1)
    /\ \A n \in (q + 1)..Len(p) : p[n] # Backtick

\* p[q] is the most recent quote of an unclosed string inside className={...
OpensStringInExpression(p, q) ==
    /\ q >= 1 /\ q <= Len(p) /\ p[q] = "\""
    /\ \A n \in (q + 1)..Len(p) : p[n] # "\""
    /\ \E k \in 1..Len(p) :
          /\ ClassNameBraceAt(p, k) /\ k < q
          /\ \A n \in (k + 1)..Len(p) : p[n] # "}"
          /\ Cardinality({ n \in (k + 1)..q : p[n] = "\"" }) % 2 = 1

\* the request is applicable, knows the classes typed after p[q], and
\* offers something unless every class of the index is typed already
ServedFrom(p, q) ==
    /\ completion.applicable
    /\ Range(completion.existing) = WsTokens(p, q + 1, Len(p))
    /\ (Range(parseCssClasses(css)) \ WsTokens(p, q + 1, Len(p)) # {}
           => completion.items # <<>>)

\* C11: in a component document a completion request is applicable when the
\* text up to the cursor is inside className={ followed by an unclosed
\* template literal, and when it is inside a className={...} expression with
\* an unclosed quoted string; the existing classes are the tokens since the
\* open backtick / quote, and a non-empty class index gives suggestions.
C11_TemplateAndExpressionContexts ==
    (completion.status = "done"
        /\ languageId \in {"javascriptreact", "typescriptreact"}) =>
        \A q \in 1..Len(Prefix) :
            (OpensTemplate(Prefix, q) \/ OpensStringInExpression(Prefix, q))
                => ServedFrom(Prefix, q)

\* position of the last "composes:" of the line, 0 without one
LastComposes ==
    IF \E i \in 1..Len(line) : line[i] = "composes:"
    THEN CHOOSE i \in 1..Len(line) :
            line[i] = "composes:" /\ \A n \in (i + 1)..Len(line) : line[n] # "composes:"
    ELSE 0

\* position of the first "from global" after the last "composes:", 0 without
FirstFromGlobal ==
    IF LastComposes > 0 /\ \E j \in (LastComposes + 1)..Len(line) : FromGlobalAt(j)
    THEN CHOOSE j \in (LastComposes + 1)..Len(line) :
            FromGlobalAt(j) /\ \A n \in (LastComposes + 1)..(j - 1) : ~FromGlobalAt(n)
    ELSE 0

\* the classes already present at the cursor context: between "composes:"
\* and "from global" in a stylesheet, inside the open quote in markup
ExistingInContext ==
    IF languageId = "css"
    THEN (IF FirstFromGlobal > 0
          THEN WsTokens(line, LastComposes + 1, FirstFromGlobal - 1) ELSE {})
    ELSE TypedClasses(Prefix)

\* C12: no candidate of a completion request is a class already present in
\* the existing classes of the cursor context, and no class is offered twice.
C12_CandidatesAreFreshAndDistinct ==
    completion.status = "done" =>
        /\ \A i \in 1..Len(completion.items) :
              completion.items[i].label \notin ExistingInContext
        /\ \A i, j \in 1..Len(completion.items) :
              completion.items[i].label = completion.items[j].label => i = j

\* C13: when a class already exists at the cursor context every candidate is
\* inserted with one space in front, otherwise as the bare class name, in
\* stylesheets and markup alike.
C13_LeadingSpaceConvention ==
    (completion.status = "done" /\ completion.applicable) =>
        \A i \in 1..Len(completion.items) :
            completion.items[i].insertText =
                IF ExistingInContext # {}
                THEN <<" ">> \o completion.items[i].label
                ELSE completion.items[i].label

\* smaller of two numbers
Min(a, b) == IF a < b THEN a ELSE b

\* C14: in a composes line the existing classes at a cursor position are the
\* class tokens between "composes:" and the cursor.
C14_ExistingClassesPrecedeCursor ==
    (completion.status = "done" /\ languageId = "css" /\ completion.applicable) =>
        Range(completion.existing) \ {<<>>} =
            WsTokens(line, LastComposes + 1, Min(position, FirstFromGlobal - 1))

\* something was shown to the user (a console entry is not)
UserNotified ==
    \E i \in 1..Len(messages) : messages[i].channel = "window.showErrorMessage"

\* C20: a request whose class list cannot be obtained (path not configured,
\* no workspace folder, unreadable file or import) completes with an empty
\* result and a notification the user sees.
C20_FailureGivesEmptyResultAndNotification ==
    (completion.status = "done" /\ completion.applicable /\ env # OkEnv) =>
        /\ completion.items = <<>>
        /\ UserNotified

----------------------------------------------------------------------------
(* The hover provider's class index over time: activation, hover requests, *)
(* file-system events and the asynchronous steps of updateClassDefinitions.*)
(* Every await is a point where another handler may run.                   *)

\* 5 * 60 * 1000 ms, in minutes
CacheTtl == 5

\* the refresh test without the empty-index case
needsRefresh_ttlOnly(now, updated, defs) == now - updated > CacheTtl

\* now - lastUpdated > 5 * 60 * 1000 || classDefinitions.size === 0
needsRefresh(now, updated, defs) ==
    now - updated > CacheTtl \/ Len(defs) = 0

\* a hover request that gives no hover
NoHover == [className |-> <<>>, properties |-> <<>>]

\* createHoverForClass: the properties of the class, null without any
createHoverForClass(className, defs) ==
    IF \E i \in 1..Len(defs) : defs[i].className = className
    THEN LET i == CHOOSE i \in 1..Len(defs) : defs[i].className = className
         IN  IF defs[i].properties # <<>>
             THEN [className |-> className, properties |-> defs[i].properties]
             ELSE NoHover
    ELSE NoHover

\* a call of updateClassDefinitions: who made it, where it waits, how it
\* ended, and the stylesheet text it read
NewTask(caller, pc, outcome) ==
    [caller |-> caller, pc |-> pc, outcome |-> outcome, content |-> <<>>]

\* updateClassDefinitions up to its first await: the setting and the
\* workspace folder are checked, then readFile is started
startUpdate(e, caller) ==
    IF ~e.cssPath
    THEN [task |-> NewTask(caller, "done", "noPath"),
          messages |-> <<Message("window.showErrorMessage",
                                 "CSS path is not configured")>>]
    ELSE IF ~e.workspaceFolder
    THEN [task |-> NewTask(caller, "done", "noWorkspace"),
          messages |-> <<Message("window.showErrorMessage",
                                 "No workspace folder found")>>]
    ELSE [task |-> NewTask(caller, "readFile", "pending"), messages |-> <<>>]

\* the index emptied as soon as the file cannot be read
afterReadFile_clearFirst(t, e, content, defs) ==
    IF e.readable
    THEN [task |-> [t EXCEPT !.pc = "process", !.content = content],
          classDefinitions |-> defs, messages |-> <<>>]
    ELSE [task |-> [t EXCEPT !.pc = "done", !.outcome = "readError"],
          classDefinitions |-> <<>>,
          messages |-> <<Message("window.showErrorMessage",
                                 "Error reading CSS file")>>]

\* updateClassDefinitions when await readFile(...) settles: on to postcss
\* with the text read, or the catch branch; classDefinitions is not touched
afterReadFile(t, e, content, defs) ==
    IF e.readable
    THEN [task |-> [t EXCEPT !.pc = "process", !.content = content],
          classDefinitions |-> defs, messages |-> <<>>]
    ELSE [task |-> [t EXCEPT !.pc = "done", !.outcome = "readError"],
          classDefinitions |-> defs,
          messages |-> <<Message("window.showErrorMessage",
                                 "Error reading CSS file")>>]

\* the new definitions added to the old ones, without the clear
afterProcess_noClear(t, e, defs) ==
    IF e.importsResolve
    THEN [task |-> [t EXCEPT !.pc = "done", !.outcome = "ok"],
          classDefinitions |-> defs \o extractClassDefinitions(t.content),
          messages |-> <<Message("window.setStatusBarMessage",
                                 "Found CSS classes")>>]
    ELSE [task |-> [t EXCEPT !.pc = "done", !.outcome = "processError"],
          classDefinitions |-> defs,
          messages |-> <<Message("window.showErrorMessage",
                                 "Error reading CSS file")>>]

\* updateClassDefinitions when await postcss(...).process(...) settles:
\* classDefinitions.clear(), postcss.parse, extractClassDefinitions and the
\* status bar message in one run, or the catch branch
afterProcess(t, e, defs) ==
    IF e.importsResolve
    THEN [task |-> [t EXCEPT !.pc = "done", !.outcome = "ok"],
          classDefinitions |-> extractClassDefinitions(t.content),
          messages |-> <<Message("window.setStatusBarMessage",
                                 "Found CSS classes")>>]
    ELSE [task |-> [t EXCEPT !.pc = "done", !.outcome = "processError"],
          classDefinitions |-> defs,
          messages |-> <<Message("window.showErrorMessage",
                                 "Error reading CSS file")>>]

----------------------------------------------------------------------------
(* Specification SpecRebuild. *)

MaxRebuilds == 2

MaxHovers == 2

MaxFsEvents == 1

MaxClock == 12

\* two contents of the configured stylesheet:
\* .a { color: red }   and   .a { color: blue } .b { color: blue }
CssVersions ==
    { << [parents |-> <<>>, selectors |-> << <<".", "a">> >>,
          nodes |-> <<[prop |-> "color", value |-> "red"]>>] >>,
      << [parents |-> <<>>, selectors |-> << <<".", "a">> >>,
          nodes |-> <<[prop |-> "color", value |-> "blue"]>>],
         [parents |-> <<>>, selectors |-> << <<".", "b">> >>,
          nodes |-> <<[prop |-> "color", value |-> "blue"]>>] >> }

\* the word a hover request points at, inside a class context
HoverWords == { <<"a">> }

RebuildInit ==
    /\ clock = StartTime
    /\ lastUpdated = 0
    /\ env \in {OkEnv} \cup FailingEnvs
    /\ css \in CssVersions
    /\ index = <<>>
    /\ indexVariant = "hover"
    /\ tasks = <<>>
    /\ hovers = <<>>
    /\ fsEvents = <<>>
    /\ messages = <<>>
    /\ ImportIdle
    /\ PanelIdle
    /\ selector = <<>>
    /\ selVariant = "none"
    /\ selClasses = <<>>
    /\ languageId = "html"
    /\ line = <<>>
    /\ position = 0
    /\ completion = NoCompletion

\* activate() has run: the providers and the watcher are registered
Activated == Len(tasks) > 0

\* activate: hoverProvider.updateClassDefinitions() is called, not awaited
Activate ==
    /\ tasks = <<>>
    /\ tasks' = <<startUpdate(env, "activate").task>>
    /\ messages' = messages \o startUpdate(env, "activate").messages
    /\ UNCHANGED <<clock, lastUpdated, env, hovers, fsEvents, cssVars,
                   selVars, docVars, completion,
                   importVars, panelVars>>

\* the lengths of time that pass between two steps: exactly the
\* time-to-live, or one minute more
TickSteps == {CacheTtl, CacheTtl + 1}

\* time passes
Tick ==
    /\ \E d \in TickSteps : clock' = clock + d
    /\ clock' <= MaxClock
    /\ UNCHANGED <<lastUpdated, env, tasks, hovers, fsEvents, messages, cssVars,
                   selVars, docVars, completion,
                   importVars, panelVars>>

\* the watcher's handler: a console entry, then updateClassDefinitions()
\* is called, not awaited
WatcherCall(text) ==
    /\ Len(tasks) < MaxRebuilds
    /\ tasks' = Append(tasks, startUpdate(env', "watcher").task)
    /\ messages' = messages \o <<Message("console.log", text)>>
                            \o startUpdate(env', "watcher").messages

\* cssFileWatcher.onDidChange: the stylesheet has new content
CssFileChanged ==
    /\ Activated
    /\ Len(fsEvents) < MaxFsEvents
    /\ fsEvents' = Append(fsEvents, "change")
    /\ css' \in CssVersions
    /\ env' = env
    /\ WatcherCall("CSS file changed, updating class definitions")
    /\ UNCHANGED <<clock, lastUpdated, hovers, indexVariant, index,
                   selVars, docVars, completion,
                   importVars, panelVars>>

\* cssFileWatcher.onDidCreate: the stylesheet is (back) on disk
CssFileCreated ==
    /\ Activated
    /\ Len(fsEvents) < MaxFsEvents
    /\ fsEvents' = Append(fsEvents, "create")
    /\ css' \in CssVersions
    /\ env' = [env EXCEPT !.readable = TRUE]
    /\ WatcherCall("CSS file created, updating class definitions")
    /\ UNCHANGED <<clock, lastUpdated, hovers, indexVariant, index,
                   selVars, docVars, completion,
                   importVars, panelVars>>

\* the stylesheet is deleted: no handler is registered for that
CssFileDeleted ==
    /\ Activated
    /\ Len(fsEvents) < MaxFsEvents
    /\ fsEvents' = Append(fsEvents, "delete")
    /\ env' = [env EXCEPT !.readable = FALSE]
    /\ UNCHANGED <<clock, lastUpdated, tasks, hovers, messages, cssVars,
                   selVars, docVars, completion,
                   importVars, panelVars>>

\* provideHover up to its await, or to its end when no refresh is needed
ProvideHover ==
    /\ Activated
    /\ Len(hovers) < MaxHovers
    /\ \E word \in HoverWords :
          IF needsRefresh(clock, lastUpdated, index)
          THEN /\ Len(tasks) < MaxRebuilds
               /\ tasks' = Append(tasks, startUpdate(env, "hover").task)
               /\ messages' = messages \o startUpdate(env, "hover").messages
               /\ hovers' = Append(hovers,
                      [now |-> clock, word |-> word, pc |-> "awaiting",
                       task |-> Len(tasks) + 1, result |-> NoHover])
          ELSE /\ hovers' = Append(hovers,
                      [now |-> clock, word |-> word, pc |-> "done",
                       task |-> 0, result |-> createHoverForClass(word, index)])
               /\ UNCHANGED <<tasks, messages,
                   importVars, panelVars>>
    /\ UNCHANGED <<clock, lastUpdated, env, fsEvents, cssVars,
                   selVars, docVars, completion,
                   importVars, panelVars>>

\* provideHover after await this.updateClassDefinitions():
\* lastUpdated = now, then the lookup
ProvideHoverResume ==
    \E h \in 1..Len(hovers) :
        /\ hovers[h].pc = "awaiting"
        /\ tasks[hovers[h].task].pc = "done"
        /\ lastUpdated' = hovers[h].now
        /\ hovers' = [hovers EXCEPT
                         ![h].pc = "done",
                         ![h].result = createHoverForClass(hovers[h].word, index)]
        /\ UNCHANGED <<clock, env, tasks, fsEvents, messages, cssVars,
                       selVars, docVars, completion,
                   importVars, panelVars>>

\* await readFile(cssFilePath) settles in one of the calls
ReadFileSettles ==
    \E i \in 1..Len(tasks) :
        /\ tasks[i].pc = "readFile"
        /\ tasks' = [tasks EXCEPT ![i] = afterReadFile(tasks[i], env, css, index).task]
        /\ index' = afterReadFile(tasks[i], env, css, index).classDefinitions
        /\ messages' = messages \o afterReadFile(tasks[i], env, css, index).messages
        /\ UNCHANGED <<clock, lastUpdated, env, hovers, fsEvents, css,
                       indexVariant, selVars, docVars, completion,
                   importVars, panelVars>>

\* await postcss([...]).process(cssContent) settles in one of the calls
ProcessSettles ==
    \E i \in 1..Len(tasks) :
        /\ tasks[i].pc = "process"
        /\ tasks' = [tasks EXCEPT ![i] = afterProcess(tasks[i], env, index).task]
        /\ index' = afterProcess(tasks[i], env, index).classDefinitions
        /\ messages' = messages \o afterProcess(tasks[i], env, index).messages
        /\ UNCHANGED <<clock, lastUpdated, env, hovers, fsEvents, css,
                       indexVariant, selVars, docVars, completion,
                   importVars, panelVars>>

RebuildNext ==
    \/ Activate
    \/ Tick
    \/ CssFileChanged
    \/ CssFileCreated
    \/ CssFileDeleted
    \/ ProvideHover
    \/ ProvideHoverResume
    \/ ReadFileSettles
    \/ ProcessSettles

SpecRebuild == RebuildInit /\ [][RebuildNext]_vars

----------------------------------------------------------------------------
(* Claims about the life of the hover index, checked under SpecRebuild. *)

\* a hover request arrives in this step
HoverArrives == Len(hovers') = Len(hovers) + 1

\* a call of updateClassDefinitions is made in this step
RebuildStarts == Len(tasks') = Len(tasks) + 1

\* a change or create notification is delivered in this step
Notified ==
    /\ Len(fsEvents') = Len(fsEvents) + 1
    /\ fsEvents'[Len(fsEvents')] \in {"change", "create"}

\* C15: a hover request starts a rebuild if and only if more than five
\* minutes have passed since the recorded last-build time or the index is
\* empty; every change or create notification of a *.css file starts one; a
\* hover request on a fresh, non-empty index starts none.
C15_RebuildPolicy ==
    [][ /\ HoverArrives =>
              (RebuildStarts <=> (clock - lastUpdated > 5 \/ index = <<>>))
        /\ Notified => RebuildStarts ]_vars

\* one hover request waited for a rebuild, another found a fresh, non-empty
\* index and started none
C15_Witness ==
    /\ index # <<>>
    /\ \E g, h \in 1..Len(hovers) : hovers[g].task > 0 /\ hovers[h].task = 0

\* the calls of updateClassDefinitions that built the index
Succeeded == { i \in 1..Len(tasks) : tasks[i].outcome = "ok" }

\* the index holds one complete build: that of a successful call, or
\* nothing as long as no call has succeeded
HoldsOneBuild(defs) ==
    \/ Succeeded = {} /\ defs = <<>>
    \/ \E i \in Succeeded : defs = extractClassDefinitions(tasks[i].content)

\* call i ends in this step because the file or an import cannot be read
FailsNow(i) ==
    /\ tasks[i].pc # "done"
    /\ tasks'[i].pc = "done"
    /\ tasks'[i].outcome \in {"readError", "processError"}

\* C16: when reading the stylesheet or resolving its imports fails, the
\* index afterwards holds what the last successful build left (not cleared,
\* not partly overwritten) and an error message is shown to the user.
C16_FailedRebuildKeepsIndex ==
    [][ \A i \in 1..Len(tasks) :
            FailsNow(i) =>
                /\ HoldsOneBuild(index)
                /\ index' = index
                /\ Len(messages') = Len(messages) + 1
                /\ messages'[Len(messages')].channel = "window.showErrorMessage"
      ]_vars

\* a rebuild has failed while the index held classes
C16_Witness ==
    /\ index # <<>>
    /\ \E i \in 1..Len(tasks) : tasks[i].outcome = "readError"

\* C17: in every interleaving of hover requests, notifications and rebuild
\* steps the index is one complete build, never a cleared or partly filled
\* one, and every lookup has read such an index.
C17_IndexReplacedAtomically ==
    /\ HoldsOneBuild(index)
    /\ \A h \in 1..Len(hovers) :
          hovers[h].pc = "done" =>
              \/ hovers[h].result = NoHover
              \/ \E i \in Succeeded :
                    hovers[h].result =
                        createHoverForClass(hovers[h].word,
                                            extractClassDefinitions(tasks[i].content))

\* a second rebuild has replaced the index of the first and a hover request
\* has looked a class up
C17_Witness ==
    /\ Cardinality(Succeeded) >= 2
    /\ \E h \in 1..Len(hovers) : hovers[h].pc = "done" /\ hovers[h].result # NoHover

\* C18: at most one rebuild of the class index is in flight at any time.
C18_OneRebuildInFlight ==
    Cardinality({ i \in 1..Len(tasks) : tasks[i].pc # "done" }) <= 1

\* C19: the last-build time advances only when a rebuild has succeeded; a
\* failed rebuild attempt leaves it alone.
C19_FailedRebuildKeepsTimestamp ==
    [][ lastUpdated' # lastUpdated =>
            \E h \in 1..Len(hovers) :
                /\ hovers[h].pc = "awaiting"
                /\ hovers'[h].pc = "done"
                /\ tasks[hovers[h].task].outcome = "ok" ]_vars

\* the configuration prompts shown so far
ConfigPrompts ==
    { i \in 1..Len(messages) :
        messages[i] = Message("window.showErrorMessage",
                              "CSS path is not configured") }

\* C21: while no entry stylesheet path is configured, the user-visible
\* configuration prompt is shown at most once over any sequence of
\* activation, hover requests and file notifications, and each operation
\* gives an empty result (no index entry, no hover).
C21_ConfigPromptShownOnce ==
    ~env.cssPath =>
        /\ Cardinality(ConfigPrompts) <= 1
        /\ index = <<>>
        /\ \A h \in 1..Len(hovers) :
              hovers[h].pc = "done" => hovers[h].result = NoHover

\* the successful call of updateClassDefinitions that was made last
LastStarted == CHOOSE i \in Succeeded : \A j \in Succeeded : j <= i

\* C27: when rebuilds of the hover index overlap, after all of them have
\* completed the index holds the result of the rebuild that started last;
\* a rebuild that read older stylesheet content has not overwritten it.
C27_LastStartedRebuildWins ==
    ( /\ \A i \in 1..Len(tasks) : tasks[i].pc = "done"
      /\ Cardinality(Succeeded) >= 2 )
        => index = extractClassDefinitions(tasks[LastStarted].content)

----------------------------------------------------------------------------
(* Import resolution.  A specifier is a sequence of tokens ("@", "~", ".", *)
(* "/" and names); a path is a sequence of segments from the file-system   *)
(* root, a segment being the tokens between two "/".                       *)

\* the segments of a specifier: its tokens split at "/"
RECURSIVE Segments(_, _)
Segments(id, segment) ==
    IF id = <<>> THEN <<segment>>
    ELSE IF Head(id) = "/" THEN <<segment>> \o Segments(Tail(id), <<>>)
    ELSE Segments(Tail(id), Append(segment, Head(id)))

\* path.resolve(dir, ...segments): "." and empty segments are dropped,
\* ".." removes the segment before it
RECURSIVE pathResolve(_, _)
pathResolve(dir, segments) ==
    IF segments = <<>> THEN dir
    ELSE IF Head(segments) \in {<<>>, <<".">>}
    THEN pathResolve(dir, Tail(segments))
    ELSE IF Head(segments) = <<".", ".">>
    THEN pathResolve(SubSeq(dir, 1, Len(dir) - 1), Tail(segments))
    ELSE pathResolve(Append(dir, Head(segments)), Tail(segments))

\* the resolve option the hover provider and the panel give to
\* postcss-import: under <workspace>/node_modules when the specifier starts
\* with "@" or "~" or does not start with ".", else under basedir
resolve(id, dir, root) ==
    IF Head(id) = "@" \/ Head(id) = "~" \/ Head(id) # "."
    THEN pathResolve(root \o << <<"node_modules">> >>, Segments(id, <<>>))
    ELSE pathResolve(dir, Segments(id, <<>>))

\* the completion provider gives postcss-import no resolve option: the
\* library looks beside the importing file and, for a specifier that is not
\* relative, in node_modules, and takes the file it finds
resolve_default(id, dir, root) ==
    { pathResolve(dir, Segments(id, <<>>)) }
        \cup IF Head(id) = "." THEN {}
             ELSE { pathResolve(root \o << <<"node_modules">> >>,
                                Segments(id, <<>>)) }

----------------------------------------------------------------------------
(* Specification SpecResolve: one @import specifier in one importing file, *)
(* handed to the resolver of each provider.                                *)

\* workspaceFolder.uri.fsPath
WorkspaceRoot == << <<"ws">> >>

\* @pkg/style.css, ~pkg/style.css, pkg/style.css, ./local.css, ../local.css ...
ImportIds ==
    { prefix \o rest :
        prefix \in { <<"@">>, <<"~">>, <<>>, <<".", "/">>, <<".", ".", "/">> },
        rest \in { <<"pkg", "/", "style.css">>, <<"local.css">>,
                   <<"pkg", "/", ".", ".", "/", "style.css">> } }

\* the directory of the importing file: the workspace root, a directory of
\* the workspace, the directory of an installed package
Basedirs ==
    { WorkspaceRoot,
      WorkspaceRoot \o << <<"src">> >>,
      WorkspaceRoot \o << <<"node_modules">>, <<"@", "pkg">> >> }

ResolveInit ==
    /\ importId \in ImportIds
    /\ basedir \in Basedirs
    /\ resolved = <<>>
    /\ LifeIdle
    /\ PanelIdle
    /\ css = <<>>
    /\ indexVariant = "none"
    /\ index = <<>>
    /\ selector = <<>>
    /\ selVariant = "none"
    /\ selClasses = <<>>
    /\ languageId = "css"
    /\ line = <<>>
    /\ position = 0
    /\ completion = NoCompletion

\* updateClassDefinitions: postcss-import calls resolve(id, basedir)
HoverResolve ==
    /\ \A r \in 1..Len(resolved) : resolved[r].by # "hover"
    /\ resolved' = Append(resolved,
           [by |-> "hover", path |-> resolve(importId, basedir, WorkspaceRoot)])
    /\ UNCHANGED <<importId, basedir, selVars, cssVars, docVars, completion,
                   lifeVars, messages, panelVars>>

\* CssClassesPanel._refresh: postcss-import calls resolve(id, basedir)
PanelResolve ==
    /\ \A r \in 1..Len(resolved) : resolved[r].by # "panel"
    /\ resolved' = Append(resolved,
           [by |-> "panel", path |-> resolve(importId, basedir, WorkspaceRoot)])
    /\ UNCHANGED <<importId, basedir, selVars, cssVars, docVars, completion,
                   lifeVars, messages, panelVars>>

\* getCssClasses: postcss-import resolves without a resolve option
CompletionResolve ==
    /\ \A r \in 1..Len(resolved) : resolved[r].by # "completion"
    /\ \E path \in resolve_default(importId, basedir, WorkspaceRoot) :
          resolved' = Append(resolved, [by |-> "completion", path |-> path])
    /\ UNCHANGED <<importId, basedir, selVars, cssVars, docVars, completion,
                   lifeVars, messages, panelVars>>

ResolveNext == HoverResolve \/ PanelResolve \/ CompletionResolve

SpecResolve == ResolveInit /\ [][ResolveNext]_vars

----------------------------------------------------------------------------
(* Claims about import resolution, checked under SpecResolve. *)

\* a package specifier: starts with "@" or "~", or does not start with "."
IsPackage(id) == Head(id) \in {"@", "~"} \/ Head(id) # "."

\* the specifier without its scheme prefix
StripScheme(id) == IF Head(id) \in {"@", "~"} THEN Tail(id) ELSE id

\* C22: a package specifier resolves to the dependency root joined with the
\* specifier with its scheme prefix stripped (@pkg/style.css gives
\* <dependencyRoot>/pkg/style.css), every other specifier resolves against
\* the directory of the importing file, and completion, hover and panel
\* resolve by this same rule.
C22_ImportResolutionRule ==
    \A r \in 1..Len(resolved) :
        resolved[r].path =
            IF IsPackage(importId)
            THEN pathResolve(WorkspaceRoot \o << <<"node_modules">> >>,
                             Segments(StripScheme(importId), <<>>))
            ELSE pathResolve(basedir, Segments(importId, <<>>))

----------------------------------------------------------------------------
(* The class explorer panel: CssClassesPanel.  A panel is                  *)
(*   [disposed, pc, content, classUsages, posted, searchText, reveals]     *)
(* with pc the position of its _refresh ("readFile", "process", "done"),   *)
(* posted the messages its webview has been sent, searchText the text of   *)
(* the last search message and reveals the calls of _panel.reveal.         *)

\* the stylesheet at start: .Ab { color: red } .b { color: blue }
PanelCss ==
    << [parents |-> <<>>, selectors |-> << <<".", "A", "b">> >>,
        nodes |-> <<[prop |-> "color", value |-> "red"]>>],
       [parents |-> <<>>, selectors |-> << <<".", "b">> >>,
        nodes |-> <<[prop |-> "color", value |-> "blue"]>>] >>

\* this._classUsages as _refresh builds it, for each stylesheet a panel
\* can read
classUsagesOf == [ast \in {PanelCss} \cup CssVersions |-> refresh_classUsages(ast)]

\* String.prototype.toLowerCase, letter by letter
toLowerCase(text) ==
    [i \in 1..Len(text) |-> IF text[i] = "A" THEN "a"
                            ELSE IF text[i] = "B" THEN "b" ELSE text[i]]

\* String.prototype.includes
includes(text, part) ==
    \E i \in 0..(Len(text) - Len(part)) :
        SubSeq(text, i + 1, i + Len(part)) = part

\* this._panel.webview.postMessage(message): nothing reaches the view of a
\* disposed panel
postMessage(panel, message) ==
    IF panel.disposed THEN panel
    ELSE [panel EXCEPT !.posted = Append(@, message)]

\* the search answered without lower-casing
handleSearch_caseSensitive(panel, searchText) ==
    postMessage([panel EXCEPT !.searchText = searchText],
                [command |-> "updateClasses",
                 classes |-> SelectSeq(panel.classUsages,
                                 LAMBDA usage : includes(usage.className,
                                                         searchText))])

\* _handleSearch: the entries of _classUsages whose class name contains the
\* text, both lower-cased, are posted; _classUsages is not touched
handleSearch(panel, searchText) ==
    postMessage([panel EXCEPT !.searchText = searchText],
                [command |-> "updateClasses",
                 classes |-> SelectSeq(panel.classUsages,
                                 LAMBDA usage :
                                     includes(toLowerCase(usage.className),
                                              toLowerCase(searchText)))])

\* a refresh that ends in its catch branch without the final message
refreshFailed_noPost(panel, text) ==
    [panel |-> [panel EXCEPT !.pc = "done"],
     messages |-> <<Message("window.showErrorMessage", text)>>]

\* _refresh from its catch branch on: the error message is shown, then
\* updateClasses is posted with the list the panel already had
refreshFailed(panel, text) ==
    [panel |-> [postMessage(panel, [command |-> "updateClasses",
                                    classes |-> panel.classUsages])
                   EXCEPT !.pc = "done"],
     messages |-> <<Message("window.showErrorMessage", text)>>]

\* _refresh up to its first await: setLoading is posted, the workspace
\* folder and the setting are checked, then readFile is started
startRefresh(panel, e, cssPath) ==
    LET loading == postMessage(panel, [command |-> "setLoading",
                                       classes |-> <<>>])
    IN  IF ~e.workspaceFolder
        THEN refreshFailed(loading,
                 "Error updating class usages: No workspace folder found")
        ELSE IF cssPath = ""
        THEN refreshFailed(loading,
                 "Error updating class usages: CSS path not configured")
        ELSE [panel |-> [loading EXCEPT !.pc = "readFile"], messages |-> <<>>]

\* _refresh when await readFile(...) settles
afterPanelReadFile(panel, e, content) ==
    IF e.readable
    THEN [panel |-> [panel EXCEPT !.pc = "process", !.content = content],
          messages |-> <<>>]
    ELSE refreshFailed(panel, "Error updating class usages")

\* _refresh when await postcss(...).process(...) settles: the list is built
\* and stored, then posted
afterPanelProcess(panel, e) ==
    IF e.importsResolve
    THEN LET built == [panel EXCEPT
                          !.classUsages = classUsagesOf[panel.content],
                          !.pc = "done"]
         IN  [panel |-> postMessage(built, [command |-> "updateClasses",
                                            classes |-> built.classUsages]),
              messages |-> <<>>]
    ELSE refreshFailed(panel, "Error updating class usages")

\* createOrShow: the current panel is revealed, or a panel is created, made
\* the current one and refreshed
createOrShow(ps, cur, e, cssPath) ==
    IF cur # 0
    THEN [panels |-> [ps EXCEPT ![cur].reveals = @ + 1],
          currentPanel |-> cur, messages |-> <<>>]
    ELSE LET created == startRefresh(
                 [disposed |-> FALSE, pc |-> "readFile", content |-> <<>>,
                  classUsages |-> <<>>, posted |-> <<>>, searchText |-> <<>>,
                  reveals |-> 0], e, cssPath)
         IN  [panels |-> Append(ps, created.panel),
              currentPanel |-> Len(ps) + 1, messages |-> created.messages]

\* the panel disposed with currentPanel left as it is
dispose_keepCurrent(p, ps, cur) ==
    [panels |-> [ps EXCEPT ![p].disposed = TRUE], currentPanel |-> cur]

\* dispose: currentPanel = undefined, the panel and its listeners disposed
dispose(p, ps, cur) ==
    [panels |-> [ps EXCEPT ![p].disposed = TRUE], currentPanel |-> 0]

----------------------------------------------------------------------------
(* Specification SpecPanel: the Show CSS Classes command and the panels of *)
(* an activated extension; SpecWatchLive adds the file watcher.  The calls *)
(* of updateClassDefinitions that activation and the watcher make are      *)
(* started here; how they proceed is the subject of SpecRebuild.           *)

MaxPanels == 2

MaxReveals == 1

MaxPosted == 4

MaxPathCommands == 1

\* what the user types into the search box
SearchTexts == { <<>>, <<"a">>, <<"B">>, <<"a", "b">> }

\* what the user enters in the input box of the Set CSS Path command; ""
\* when the box is dismissed
EnteredPaths == { "", "styles.css" }

PanelInit ==
    /\ clock = StartTime
    /\ lastUpdated = 0
    /\ env \in {OkEnv} \cup FailingEnvs
    /\ tasks = <<>>
    /\ hovers = <<>>
    /\ fsEvents = <<>>
    /\ messages = <<>>
    /\ PanelIdle
    /\ ImportIdle
    /\ css = PanelCss
    /\ index = <<>>
    /\ indexVariant = "hover"
    /\ selector = <<>>
    /\ selVariant = "none"
    /\ selClasses = <<>>
    /\ languageId = "html"
    /\ line = <<>>
    /\ position = 0
    /\ completion = NoCompletion

\* the command shringarcss-intellisense.showClasses
ShowClasses ==
    /\ Activated
    /\ IF currentPanel # 0 THEN panels[currentPanel].reveals < MaxReveals
                           ELSE Len(panels) < MaxPanels
    /\ LET shown == createOrShow(panels, currentPanel, env,
                                 settings["postcssense.cssPath"])
       IN  /\ panels' = shown.panels
           /\ currentPanel' = shown.currentPanel
           /\ messages' = messages \o shown.messages
    /\ UNCHANGED <<settings, lifeVars, cssVars, selVars, docVars, completion,
                   importVars>>

\* await readFile(cssFilePath) settles in the _refresh of a panel
PanelReadFileSettles ==
    \E p \in 1..Len(panels) :
        /\ panels[p].pc = "readFile"
        /\ LET settled == afterPanelReadFile(panels[p], env, css)
           IN  /\ panels' = [panels EXCEPT ![p] = settled.panel]
               /\ messages' = messages \o settled.messages
        /\ UNCHANGED <<settings, currentPanel, lifeVars, cssVars, selVars,
                       docVars, completion, importVars>>

\* await postcss([...]).process(cssContent) settles in the _refresh of a panel
PanelProcessSettles ==
    \E p \in 1..Len(panels) :
        /\ panels[p].pc = "process"
        /\ LET settled == afterPanelProcess(panels[p], env)
           IN  /\ panels' = [panels EXCEPT ![p] = settled.panel]
               /\ messages' = messages \o settled.messages
        /\ UNCHANGED <<settings, currentPanel, lifeVars, cssVars, selVars,
                       docVars, completion, importVars>>

\* onDidReceiveMessage: the webview's search box has a new text
HandleSearch ==
    \E p \in 1..Len(panels), text \in SearchTexts :
        /\ ~panels[p].disposed
        /\ text # panels[p].searchText
        /\ Len(panels[p].posted) < MaxPosted
        /\ panels' = [panels EXCEPT ![p] = handleSearch(panels[p], text)]
        /\ UNCHANGED <<settings, currentPanel, messages, lifeVars, cssVars,
                       selVars, docVars, completion, importVars>>

\* the user closes the panel: onDidDispose calls dispose()
DisposePanel ==
    \E p \in 1..Len(panels) :
        /\ ~panels[p].disposed
        /\ panels' = dispose(p, panels, currentPanel).panels
        /\ currentPanel' = dispose(p, panels, currentPanel).currentPanel
        /\ UNCHANGED <<settings, messages, lifeVars, cssVars, selVars,
                       docVars, completion, importVars>>

\* the command shringarcss-intellisense.setCssPath: the input box, then
\* config.update of cssPath under 'shringarcss-intellisense' and the
\* information message; the update of a key that is not registered is
\* rejected and nothing is written.  What the providers find under
\* postcssense.cssPath afterwards is what the settings hold there.
SetCssPath ==
    /\ Activated
    /\ Cardinality({ i \in 1..Len(messages) :
           messages[i].channel = "window.showInputBox" }) < MaxPathCommands
    /\ \E result \in EnteredPaths :
          \/ /\ result # ""
             /\ settings' = [settings EXCEPT
                    !["shringarcss-intellisense.cssPath"] = result]
             /\ messages' = messages \o
                    << Message("window.showInputBox", result),
                       Message("window.showInformationMessage",
                               "CSS path updated successfully!") >>
          \/ /\ settings' = settings
             /\ messages' = messages \o <<Message("window.showInputBox", result)>>
    /\ env' = [env EXCEPT !.cssPath = (settings'["postcssense.cssPath"] # "")]
    /\ UNCHANGED <<panels, currentPanel, clock, lastUpdated, tasks, hovers,
                   fsEvents, cssVars, selVars, docVars, completion, importVars>>

PanelNext ==
    \/ Activate
    \/ ShowClasses
    \/ PanelReadFileSettles
    \/ PanelProcessSettles
    \/ DisposePanel

SpecPanel == PanelInit /\ [][PanelNext]_vars

\* readFile and postcss's process settle, with a result or an error
SpecPanelLive ==
    /\ SpecPanel
    /\ WF_vars(PanelReadFileSettles)
    /\ WF_vars(PanelProcessSettles)

\* the panel together with the file watcher
WatchNext ==
    \/ Activate
    \/ CssFileChanged
    \/ CssFileCreated
    \/ ShowClasses
    \/ PanelReadFileSettles
    \/ PanelProcessSettles
    \/ DisposePanel

SpecWatchLive ==
    /\ PanelInit
    /\ [][WatchNext]_vars
    /\ WF_vars(PanelReadFileSettles)
    /\ WF_vars(PanelProcessSettles)

----------------------------------------------------------------------------
(* Specification SpecSearch: one panel and the search box of its view. *)

SearchNext ==
    \/ Activate
    \/ ShowClasses
    \/ PanelReadFileSettles
    \/ PanelProcessSettles
    \/ HandleSearch

SpecSearch == PanelInit /\ [][SearchNext]_vars

----------------------------------------------------------------------------
(* Specification SpecSettings: the Set CSS Path command and the hover      *)
(* requests that read the setting afterwards.                              *)

SettingsNext ==
    \/ Activate
    \/ SetCssPath
    \/ ProvideHover
    \/ ProvideHoverResume
    \/ ReadFileSettles
    \/ ProcessSettles

SpecSettings == RebuildInit /\ [][SettingsNext]_vars

----------------------------------------------------------------------------
(* Claims about the Set CSS Path command, checked under SpecSettings. *)

\* message i is the entry of a non-empty path in the input box of a Set CSS
\* Path command that went on to report success
CompletedWithPath(i) ==
    /\ messages[i].channel = "window.showInputBox"
    /\ messages[i].text # ""
    /\ i < Len(messages)
    /\ messages[i + 1].channel = "window.showInformationMessage"

\* C23: after the Set CSS Path command has completed with a non-empty path
\* P, the value the providers read as the entry stylesheet path,
\* postcssense.cssPath, is P.
C23_SetCssPathTakesEffect ==
    \A i \in 1..Len(messages) :
        ( /\ CompletedWithPath(i)
          /\ \A j \in (i + 1)..Len(messages) : ~CompletedWithPath(j) )
            => settings["postcssense.cssPath"] = messages[i].text

----------------------------------------------------------------------------
(* Claim about the panel and the file watcher, checked under              *)
(* SpecWatchLive.                                                         *)

\* the list the view of panel p shows: the one of the last message posted
ViewList(p) ==
    IF panels[p].posted = <<>> THEN <<>>
    ELSE panels[p].posted[Len(panels[p].posted)].classes

\* panel p is open with no refresh under way, the stylesheet can be read
\* and processed, and the view shows another list than the stylesheet
\* gives.  The stylesheet changes with a notification only, and a refresh
\* reads it as it is when readFile settles, so the notification arrived
\* while the panel was open.
ShowsOldList(p) ==
    /\ p <= Len(panels)
    /\ ~panels[p].disposed
    /\ panels[p].pc = "done"
    /\ env = OkEnv
    /\ ViewList(p) # refresh_classUsages(css)

\* C24: whenever a change or create notification for a *.css file arrives
\* while the class explorer panel is open, the panel's list is rebuilt from
\* the stylesheet and sent to the view again: a panel left open does not go
\* on showing the list of the stylesheet as it was before the notification.
C24_PanelFollowsStylesheet ==
    \A p \in 1..MaxPanels : ShowsOldList(p) ~> ~ShowsOldList(p)

----------------------------------------------------------------------------
(* Claims about the panel's search box, checked under SpecSearch. *)

\* the same letter in either case
SameLetter(x, y) ==
    x = y \/ {x, y} = {"a", "A"} \/ {x, y} = {"b", "B"}

\* the name holds the text somewhere, the case of letters set aside
ContainsIgnoringCase(name, text) ==
    \E i \in 0..(Len(name) - Len(text)) :
        \A k \in 1..Len(text) : SameLetter(name[i + k], text[k])

\* the full list of the last refresh of panel p: the list of the stylesheet
\* it read once it has completed, nothing before and nothing when it failed
FullList(p) ==
    IF panels[p].pc = "done" /\ env = OkEnv
    THEN refresh_classUsages(panels[p].content)
    ELSE <<>>

\* a search message is handled by panel p in this step
SearchStep(p) == panels'[p].searchText # panels[p].searchText

\* C26: the list posted for a search text is exactly the entries of the
\* full list of the last refresh whose class name contains the text, case
\* set aside, whatever was searched before; the stored full list stays as
\* it is, and the empty text gives the full list.
C26_SearchFiltersFullList ==
    [][ \A p \in 1..Len(panels) :
            SearchStep(p) =>
                LET text == panels'[p].searchText
                    sent == panels'[p].posted
                IN  /\ sent = Append(panels[p].posted, sent[Len(sent)])
                    /\ sent[Len(sent)].command = "updateClasses"
                    /\ sent[Len(sent)].classes =
                           SelectSeq(FullList(p),
                               LAMBDA usage :
                                   ContainsIgnoringCase(usage.className, text))
                    /\ text = <<>> => sent[Len(sent)].classes = FullList(p)
                    /\ panels'[p].classUsages = FullList(p)
                    /\ panels[p].classUsages = FullList(p) ]_vars

\* after a refresh that gave two classes, a search that kept one of them
\* was followed by the search for B, which gave both .Ab and .b
C26_Witness ==
    \E p \in 1..Len(panels) :
        /\ Len(FullList(p)) = 2
        /\ Len(panels[p].posted) = 4
        /\ Len(panels[p].posted[3].classes) = 1
        /\ panels[p].searchText = <<"B">>
        /\ panels[p].posted[4].classes = FullList(p)

----------------------------------------------------------------------------
(* Claims about the life of the panel, checked under SpecPanel. *)

\* the panels that exist: created and not disposed
Existing == { p \in 1..Len(panels) : ~panels[p].disposed }

\* C29: at most one class explorer panel exists; currentPanel refers to it
\* exactly while it is not disposed and is undefined otherwise; the Show CSS
\* Classes command issued while a panel exists reveals that panel, creates
\* no other and starts no refresh.
C29_SinglePanel ==
    /\ [](/\ Cardinality(Existing) <= 1
          /\ currentPanel # 0 => Existing = {currentPanel}
          /\ currentPanel = 0 => Existing = {})
    /\ [][ (ShowClasses /\ Existing # {}) =>
              \E p \in Existing :
                  /\ currentPanel' = p
                  /\ panels' = [panels EXCEPT ![p].reveals = @ + 1]
                  /\ messages' = messages ]_vars

\* the first panel was closed, the command created a second one and, issued
\* again, revealed it
C29_Witness ==
    /\ Len(panels) = 2
    /\ panels[1].disposed
    /\ currentPanel = 2
    /\ panels[2].reveals = 1

----------------------------------------------------------------------------
(* Claim about the loader of the panel, checked under SpecPanelLive: every *)
(* await of a refresh settles.                                             *)

\* the view of panel p shows its loader: the panel is open and the last
\* message it was sent is setLoading
Loading(p) ==
    /\ p \in Existing
    /\ panels[p].posted # <<>>
    /\ panels[p].posted[Len(panels[p].posted)].command = "setLoading"

\* C30: every refresh that has posted setLoading goes on to post
\* updateClasses, which hides the loader, also when the workspace folder is
\* missing, the path is not configured, or reading or processing the
\* stylesheet fails: the loader of an open panel is never left showing.
C30_LoaderIsHidden ==
    \A p \in 1..MaxPanels : Loading(p) ~> ~Loading(p)

\* a refresh whose postcss processing failed has posted updateClasses after
\* setLoading
C30_Witness ==
    \E p \in Existing :
        /\ ~env.importsResolve
        /\ panels[p].pc = "done"
        /\ Len(panels[p].posted) = 2
        /\ panels[p].posted[1].command = "setLoading"
        /\ panels[p].posted[2].command = "updateClasses"

====
